---- MODULE Spec2Model ----
(***************************************************************************)
(* A model of sfdLib's SFD parser (Lib/sfdLib/parser.py, class SFDParser). *)
(*                                                                         *)
(* parse() is one long sequential handler.  The model splits it into its   *)
(* phases and gives every phase a specification of its own, so that each   *)
(* state space stays small:                                                *)
(*   SpecParse     the font-level scan loop and the offset-metric fixup    *)
(*   SpecMetrics   the same, fed the metric records                        *)
(*   SpecSanitize  _santizeLookupName, called in any order                 *)
(*   SpecWrite     _parseLookup, then _writeGSUBGPOS for GSUB and for GPOS *)
(*   SpecChars     the glyph block, from a file or from *.glyph files:     *)
(*                 _parseChars, then _processKerns                         *)
(*   SpecContour   _drawContours on one contour                            *)
(* Python values are encoded as follows: a str is a TLA+ string, None is   *)
(* the empty tuple <<>> and a value v that may be None is <<v>>; a dict is *)
(* a function together with the sequence of its keys in insertion order.   *)
(***************************************************************************)
EXTENDS Integers, Sequences, FiniteSets, TLC

VARIABLES
    \* ---- parse(): the scan loop (SpecParse)
    line,           \* the line the loop read last (data[i - 1])
    i,              \* the loop's cursor: number of lines read
    status,         \* "scan" | "scanned" | "fixed" | "done" | "error"
    isdir,          \* os.path.isdir(self._path)
    info,           \* font.info: field name -> <<>> (None) or <<value>>
    offsetMetrics,  \* the local list offsetMetrics of parse()
    charData,       \* <<>> (None) or <<"lines">>
    scanInfo,       \* history: font.info as it was when the scan loop ended
    fontBounds,     \* getFontBounds(font.bounds) after the glyphs are parsed
    \* ---- lookup names and the feature program (SpecSanitize, SpecWrite)
    lookupRecords,  \* the Lookup records of the file, as _parseLookup reads them
    gsubLookups,    \* self._gsubLookups: [keys, map]
    gposLookups,    \* self._gposLookups: [keys, map]
    lookupInfo,     \* self._lookupInfo: lookup -> [kind, flags, features]
    sanitizedLookupNames, \* self._sanitizedLookupNames: [keys, map]
    glyphPosSub,    \* self._glyphPosSub: [keys, map]
    glyphAnchors,   \* self._glyphAnchors: glyph -> anchor class -> kind -> <<x, y, index>>
    anchorClasses,  \* self._anchorClasses: subtable -> anchor class names
    ligatureCarets, \* self._ligatureCarets: glyph -> caret positions
    feaText,        \* font.features.text: <<>> (None) or <<string>>
    wpc,            \* position in the feature-writing part of parse()
    \* ---- the glyph block (SpecChars, SpecDir)
    files,          \* the glyph sections, in the order they are written
    enumOrder,      \* directory mode: the order glob.iglob returns the files in
    cpc,            \* "glob" | "chars" | "sorted" | "kerned" | "error"
    charLines,      \* the local list data of _parseChars
    chi,            \* the local index i of _parseChars
    ci,             \* number of StartChar sections parsed
    fontGlyphs,     \* the glyphs of the font: [keys, map name -> glyph]
    glyphOrder,     \* font.glyphOrder
    glyphOrderMap,  \* the local dict glyphOrderMap of _parseChars
    glyphKerns,     \* self._glyphKerns: [keys, map]
    kerning,        \* font.kerning: <<name1, name2>> -> <<>> or <<value>>
    \* ---- _drawContours (SpecContour)
    contour,        \* the contour being drawn: segments, then maybe its name
    quadratic,      \* the layer's curve convention
    si,             \* number of segments converted
    ufoContour,     \* the local list ufoContour
    emitted,        \* history: ufoContour as it was before the closing step
    forceOpen,      \* the local flag forceOpen
    pen,            \* the calls the point pen received
    dpc,            \* "segments" | "drawn" | "error"
    \* ---- _parseAnchorPoint (SpecAnchors)
    use_ufo_anchors,\* self._use_ufo_anchors
    anchorLog,      \* history: the <<glyph, data>> of the AnchorPoint records read
    apc,            \* "anchors" | "error"
    \* ---- one call of a method that reads lines (SpecSection, SpecSpline)
    args,           \* the arguments of the call
    result,         \* <<>> before the call returns, then <<what it returned>>
    upc,            \* "call" | "returned" | "raised"
    \* ---- _parseChar on the layers (SpecLayers)
    layers,         \* self._layers: per layer, [keys, map name -> layer glyph]
    layerType,      \* self._layerType: per layer, its quadratic flag
    charSection,    \* the local list data of _parseChar
    sci,            \* the local index i of _parseChar
    recAt,          \* history: the index the record handled last was read at
    layerGlyph,     \* the local layerGlyph, as the index of the layer holding it
    glyphQuadratic, \* the local quadratic: <<>> while it has no value
    encOrder,       \* the local order: <<>> while it has no value
    lpc             \* "records" | "done" | "error"

parseVars == <<line, i, status, isdir, info, offsetMetrics, charData,
               scanInfo, fontBounds>>
feaVars == <<lookupRecords, gsubLookups, gposLookups, lookupInfo,
             sanitizedLookupNames, glyphPosSub, glyphAnchors, anchorClasses,
             ligatureCarets, feaText, wpc>>
charVars == <<files, enumOrder, cpc, charLines, chi, ci, fontGlyphs, glyphOrder, glyphOrderMap,
              glyphKerns, kerning>>
drawVars == <<contour, quadratic, si, ufoContour, emitted, forceOpen, pen, dpc>>
anchorVars == <<use_ufo_anchors, anchorLog, apc>>
unitVars == <<args, result, upc>>
layerVars == <<layers, layerType, charSection, sci, recAt, layerGlyph,
               glyphQuadratic, encOrder, lpc>>
otherVars == <<anchorVars, unitVars, layerVars>>
vars == <<parseVars, feaVars, charVars, drawVars, otherVars>>

-----------------------------------------------------------------------------
(* Python values *)

None == <<>>
Some(v) == <<v>>
Val(o) == o[1]

\* An insertion-ordered dict (OrderedDict, or dict on Python >= 3.7).
EmptyDict == [keys |-> <<>>, map |-> <<>>]
Range(s) == {s[k] : k \in 1..Len(s)}
HasKey(d, k) == k \in Range(d.keys)
Get(d, k) == d.map[CHOOSE n \in 1..Len(d.keys) : d.keys[n] = k]
Put(d, k, v) ==
    IF HasKey(d, k)
    THEN [d EXCEPT !.map[CHOOSE n \in 1..Len(d.keys) : d.keys[n] = k] = v]
    ELSE [keys |-> Append(d.keys, k), map |-> Append(d.map, v)]
Values(d) == Range(d.map)

-----------------------------------------------------------------------------
(* Python str operations *)

Chr(s, n) == SubSeq(s, n, n)
StartsWith(s, p) == Len(s) >= Len(p) /\ SubSeq(s, 1, Len(p)) = p
\* sub in s
Contains(s, sub) ==
    \E n \in 1..(Len(s) - Len(sub) + 1) : SubSeq(s, n, n + Len(sub) - 1) = sub
\* s.find(sub) + 1, 0 when absent
Find(s, sub) ==
    IF Contains(s, sub)
    THEN CHOOSE n \in 1..(Len(s) - Len(sub) + 1) :
            /\ SubSeq(s, n, n + Len(sub) - 1) = sub
            /\ \A m \in 1..(n - 1) : SubSeq(s, m, m + Len(sub) - 1) # sub
    ELSE 0
Whitespace == {" ", "\t", "\n", "\r"}
RECURSIVE LStrip(_)
LStrip(s) == IF Len(s) > 0 /\ Chr(s, 1) \in Whitespace THEN LStrip(Tail(s)) ELSE s
RECURSIVE RStrip(_)
RStrip(s) ==
    IF Len(s) > 0 /\ Chr(s, Len(s)) \in Whitespace
    THEN RStrip(SubSeq(s, 1, Len(s) - 1)) ELSE s
Strip(s) == RStrip(LStrip(s))

DigitChars == {"0", "1", "2", "3", "4", "5", "6", "7", "8", "9"}
DigitValue(c) == CHOOSE d \in 0..9 : Chr("0123456789", d + 1) = c
AllDigits(s) == Len(s) > 0 /\ \A n \in 1..Len(s) : Chr(s, n) \in DigitChars
RECURSIVE DigitsValue(_)
DigitsValue(s) ==
    IF Len(s) = 0 THEN 0
    ELSE 10 * DigitsValue(SubSeq(s, 1, Len(s) - 1)) + DigitValue(Chr(s, Len(s)))
\* "%d" % n, for n >= 0
RECURSIVE IntToStr(_)
IntToStr(n) ==
    IF n < 10 THEN Chr("0123456789", n + 1)
    ELSE IntToStr(n \div 10) \o Chr("0123456789", (n % 10) + 1)

\* int(value): None when Python raises (TypeError for None, ValueError for text
\* that is no integer literal).
IntOf(value) ==
    IF value = None THEN None
    ELSE LET s == Strip(Val(value))
             neg == Len(s) > 0 /\ Chr(s, 1) = "-"
             body == IF Len(s) > 0 /\ Chr(s, 1) \in {"-", "+"} THEN Tail(s) ELSE s
         IN IF AllDigits(body)
            THEN Some(IF neg THEN 0 - DigitsValue(body) ELSE DigitsValue(body))
            ELSE None

\* float(value) for plain decimal literals, as the pair <<numerator, denominator>>
\* with a power of ten as denominator; None when Python raises.
FloatOf(value) ==
    IF value = None THEN None
    ELSE LET s == Strip(Val(value))
             dot == Find(s, ".")
             whole == IF dot = 0 THEN s ELSE SubSeq(s, 1, dot - 1)
             frac == IF dot = 0 THEN "" ELSE SubSeq(s, dot + 1, Len(s))
         IN IF /\ (whole = "" \/ AllDigits(whole))
               /\ (frac = "" \/ AllDigits(frac))
               /\ Len(whole) + Len(frac) > 0
            THEN Some(<<DigitsValue(whole \o frac), 10 ^ Len(frac)>>)
            ELSE None

Max(a, b) == IF a >= b THEN a ELSE b

-----------------------------------------------------------------------------
(* parse(): the scan loop over the font-level lines, lines 999-1207 *)

\* Lines the scan is fed in this model, besides the first.
MaxLines == 4

\* version != 3.0 (line 1020), on the pair FloatOf returns
SupportedVersionOrNewer(version) == version[1] >= 3 * version[2]
SupportedVersion(version) == version[1] = 3 * version[2]

\* key, value of a line (lines 1010-1014)
LineKey(l) ==
    IF Contains(l, ":") THEN Strip(SubSeq(l, 1, Find(l, ":") - 1)) ELSE Strip(l)
LineValue(l) ==
    IF Contains(l, ":") THEN Some(Strip(SubSeq(l, Find(l, ":") + 1, Len(l)))) ELSE None

\* The keys whose handler is info.<field> = value
StrField(key) ==
    CASE key = "FontName" -> "postscriptFontName"
      [] key = "FullName" -> "postscriptFullName"
      [] key = "FamilyName" -> "familyName"
      [] key = "Weight" -> "postscriptWeightName"
      [] key = "Comments" -> "note"
      [] OTHER -> ""

\* The keys whose handler is info.<field> = int(value)
IntField(key) ==
    CASE key \in {"TTFWeight", "PfmWeight"} -> "openTypeOS2WeightClass"
      [] key = "TTFWidth" -> "openTypeOS2WidthClass"
      [] key = "LineGap" -> "openTypeHheaLineGap"
      [] key = "VLineGap" -> "openTypeVheaVertTypoLineGap"
      [] key = "HheadAscent" -> "openTypeHheaAscender"
      [] key = "HheadDescent" -> "openTypeHheaDescender"
      [] key = "OS2TypoLinegap" -> "openTypeOS2TypoLineGap"
      [] key = "OS2TypoAscent" -> "openTypeOS2TypoAscender"
      [] key = "OS2TypoDescent" -> "openTypeOS2TypoDescender"
      [] key = "OS2WinAscent" -> "openTypeOS2WinAscent"
      [] key = "OS2WinDescent" -> "openTypeOS2WinDescent"
      [] key = "OS2SubXSize" -> "openTypeOS2SubscriptXSize"
      [] key = "OS2SubYSize" -> "openTypeOS2SubscriptYSize"
      [] key = "OS2SubXOff" -> "openTypeOS2SubscriptXOffset"
      [] key = "OS2SubYOff" -> "openTypeOS2SubscriptYOffset"
      [] key = "OS2SupXSize" -> "openTypeOS2SuperscriptXSize"
      [] key = "OS2SupYSize" -> "openTypeOS2SuperscriptYSize"
      [] key = "OS2SupXOff" -> "openTypeOS2SuperscriptXOffset"
      [] key = "OS2SupYOff" -> "openTypeOS2SuperscriptYOffset"
      [] key = "OS2StrikeYSize" -> "openTypeOS2StrikeoutSize"
      [] key = "OS2StrikeYPos" -> "openTypeOS2StrikeoutPosition"
      [] key = "OS2CapHeight" -> "capHeight"
      [] key = "OS2XHeight" -> "xHeight"
      [] key = "UniqueID" -> "postscriptUniqueID"
      [] OTHER -> ""

\* The keys whose handler is pass
PassKeys ==
    {"DefaultBaseFilename", "sfntRevision", "WidthSeparation", "DisplayLayer",
     "DisplaySize", "AntiAlias", "FitToEm", "WinInfo", "Encoding",
     "ModificationTime", "PfmFamily", "OS2Version", "OS2CodePages",
     "OS2UnicodeRanges", "XUID", "UnicodeInterp", "NameList", "DEI"}

\* The keys with a handler of their own that the scan of this model is not
\* fed: ScanLine is disabled on them.
OtherHandlerKeys ==
    {"Copyright", "UComments", "FontLog", "Version", "ItalicAngle",
     "UnderlinePosition", "UnderlineWidth", "LayerCount", "Layer",
     "CreationTime", "FSType", "Panose", "OS2Vendor", "OS2FamilyClass",
     "OS2_WeightWidthSlopeOnly", "OS2_UseTypoMetrics", "LangName", "GaspTable",
     "BeginPrivate", "BeginChars", "Grid", "KernClass2", "Lookup",
     "AnchorClass2"}

\* _OFFSET_METRICS (lines 645-652)
OFFSET_METRICS(key) ==
    CASE key = "HheadAOffset" -> "openTypeHheaAscender"
      [] key = "HheadDOffset" -> "openTypeHheaDescender"
      [] key = "OS2TypoAOffset" -> "openTypeOS2TypoAscender"
      [] key = "OS2TypoDOffset" -> "openTypeOS2TypoDescender"
      [] key = "OS2WinAOffset" -> "openTypeOS2WinAscent"
      [] key = "OS2WinDOffset" -> "openTypeOS2WinDescent"
      [] OTHER -> ""

InfoFields ==
    {StrField(k) : k \in {"FontName", "FullName", "FamilyName", "Weight", "Comments"}}
    \cup {"ascender", "descender", "unitsPerEm", "styleName",
          "openTypeHheaLineGap", "openTypeHheaAscender", "openTypeHheaDescender",
          "openTypeOS2TypoAscender", "openTypeOS2TypoDescender",
          "openTypeOS2WinAscent", "openTypeOS2WinDescent"}

\* A new font's info: every field None.
NewInfo == [f \in InfoFields |-> None]

\* One pass of the loop body on a line that is not the first (lines 1023-1203):
\* the branch the key selects, applied to the state st = [info, offsetMetrics].
\* status "scanned" is the break of EndSplineFont.
Dispatch(key, value, st) ==
    LET ok(s) == [status |-> "scan", info |-> s.info, offsetMetrics |-> s.offsetMetrics]
        fail == [status |-> "error", info |-> st.info, offsetMetrics |-> st.offsetMetrics]
        setInt(field, neg) ==
            IF IntOf(value) = None THEN fail
            ELSE ok([st EXCEPT !.info[field] =
                        Some(IF neg THEN 0 - Val(IntOf(value)) ELSE Val(IntOf(value)))])
    IN  CASE StrField(key) \in {"postscriptFontName", "postscriptFullName",
                                "familyName", "postscriptWeightName"} ->
                ok([st EXCEPT !.info[StrField(key)] = value])
          [] key = "Comments" -> ok([st EXCEPT !.info["note"] = value])
          [] key = "DefaultBaseFilename" -> ok(st)
          \* elif key in "Ascent": a substring test (line 1057)
          [] key \notin {"FontName", "FullName", "FamilyName", "Weight", "Comments",
                         "DefaultBaseFilename"}
             /\ Contains("Ascent", key) -> setInt("ascender", FALSE)
          \* elif key in "Descent": a substring test (line 1059)
          [] key \notin {"FontName", "FullName", "FamilyName", "Weight", "Comments",
                         "DefaultBaseFilename"}
             /\ ~Contains("Ascent", key)
             /\ Contains("Descent", key) -> setInt("descender", TRUE)
          [] IntField(key) # "" /\ IntField(key) \in InfoFields -> setInt(IntField(key), FALSE)
          [] IntField(key) # "" /\ IntField(key) \notin InfoFields ->
                IF IntOf(value) = None THEN fail ELSE ok(st)
          [] key \in PassKeys -> ok(st)
          [] OFFSET_METRICS(key) # "" ->
                IF IntOf(value) = None THEN fail
                ELSE IF Val(IntOf(value)) # 0
                     THEN ok([st EXCEPT !.offsetMetrics = Append(@, OFFSET_METRICS(key))])
                     ELSE ok(st)
          [] key = "EndSplineFont" ->
                [status |-> "scanned", info |-> st.info, offsetMetrics |-> st.offsetMetrics]
          [] OTHER -> ok(st)

\* The first pass of the loop body (lines 1016-1021): the header check.
Header(key, value, st) ==
    IF  /\ key = "SplineFontDB"
        /\ FloatOf(value) # None
        /\ SupportedVersion(Val(FloatOf(value)))
    THEN [status |-> "scan", info |-> st.info, offsetMetrics |-> st.offsetMetrics]
    ELSE [status |-> "error", info |-> st.info, offsetMetrics |-> st.offsetMetrics]

HeaderLines ==
    {"SplineFontDB: 3.0", "SplineFontDB: 2.0", "SplineFontDB: 3", "SplineFontDB: 3.1",
     "SplineFontDB: abc", "SplineFontDB", "FontName: x"}
BodyLines ==
    {"", "Foo: 1", "Bar", "Asc: 5", "scent: 7", "Desc: 3", "SplineFontDB: 2.0",
     "Ascent: 800", "Descent: 200", "Ascent", "FontName: x-Bold", "XUID: 1",
     "LineGap: 90", "OS2WinAscent: 50", "OS2WinAOffset: 1", "EndSplineFont"}
\* The lines SpecMetrics feeds the scan after a good header.
MetricLines ==
    {"Ascent: 800", "Descent: 200",
     "HheadAscent: 20", "HheadDescent: -30", "OS2TypoAscent: 10",
     "OS2TypoDescent: -15", "OS2WinAscent: 50", "OS2WinDescent: 60",
     "HheadAOffset: 1", "HheadDOffset: 1", "OS2TypoAOffset: 1",
     "OS2TypoDOffset: 1", "OS2WinAOffset: 1", "OS2WinDOffset: 1",
     "OS2WinAOffset: 0"}

\* while i < len(data): line = data[i]; i += 1; ... (lines 1006-1203), one line
ScanLine(l) ==
    /\ status = "scan"
    /\ i < MaxLines
    /\ LineKey(l) \notin OtherHandlerKeys \/ i = 0
    /\ LET st == [info |-> info, offsetMetrics |-> offsetMetrics]
           r == IF i + 1 = 1 THEN Header(LineKey(l), LineValue(l), st)
                ELSE Dispatch(LineKey(l), LineValue(l), st)
       IN /\ status' = r.status
          /\ info' = r.info
          /\ offsetMetrics' = r.offsetMetrics
    /\ line' = l
    /\ i' = i + 1
    /\ UNCHANGED <<isdir, charData, scanInfo, fontBounds>>
    /\ UNCHANGED <<feaVars, charVars, drawVars, otherVars>>

\* elif key == "BeginChars": charData, i = self._getSection(data, i, "EndChars")
\* (lines 1183-1184).  The glyph lines are those of SpecChars; here the section
\* is n lines and its end marker, or the end marker is missing (IndexError).
ScanBeginChars(n, found) ==
    /\ status = "scan"
    /\ i >= 1
    /\ i + n + 1 < MaxLines
    /\ line' = "BeginChars: 0 0"
    /\ IF found
       THEN /\ i' = i + 1 + n + 1
            /\ charData' = Some("lines")
            /\ status' = "scan"
       ELSE /\ i' = i + 1
            /\ charData' = charData
            /\ status' = "error"
    /\ UNCHANGED <<isdir, info, offsetMetrics, scanInfo, fontBounds>>
    /\ UNCHANGED <<feaVars, charVars, drawVars, otherVars>>

\* The loop condition i < len(data) fails: the input has no more lines.
EndOfInput ==
    /\ status = "scan"
    /\ status' = "scanned"
    /\ UNCHANGED <<line, i, isdir, info, offsetMetrics, charData, scanInfo, fontBounds>>
    /\ UNCHANGED <<feaVars, charVars, drawVars, otherVars>>

-----------------------------------------------------------------------------
(* _fixOffsetMetrics, lines 654-673 *)

\* The loop body for one metric; None when Python raises (a None operand).
FixOne(metric, inf, bounds) ==
    LET value == inf[metric]
        r == CASE metric = "openTypeOS2TypoAscender" -> <<inf["ascender"], 1>>
               [] metric = "openTypeOS2TypoDescender" -> <<inf["descender"], 1>>
               [] metric = "openTypeOS2WinAscent" -> <<Some(bounds.yMax), 1>>
               [] metric = "openTypeOS2WinDescent" -> <<Some(0 - bounds.yMin), 2>>
               [] metric = "openTypeHheaAscender" -> <<Some(bounds.yMax), 1>>
               [] metric = "openTypeHheaDescender" -> <<Some(bounds.yMin), 1>>
    IN  IF value = None \/ r[1] = None THEN None
        ELSE Some([inf EXCEPT ![metric] =
                    Some(IF r[2] = 2 THEN Max(Val(r[1]) + Val(value), 0)
                         ELSE Val(r[1]) + Val(value))])

\* for metric in metrics: ...; None when Python raises
RECURSIVE fixOffsetMetrics(_, _, _)
fixOffsetMetrics(metrics, inf, bounds) ==
    IF metrics = <<>> THEN Some(inf)
    ELSE LET r == FixOne(Head(metrics), inf, bounds)
         IN IF r = None THEN None ELSE fixOffsetMetrics(Tail(metrics), Val(r), bounds)

BoundsChoices == {[yMin |-> -250, yMax |-> 750], [yMin |-> 100, yMax |-> 900]}

\* parse() from the end of the scan to _fixOffsetMetrics (lines 1209-1246).  No
\* Layer record is scanned in this model, so the layer loop creates nothing; the
\* glyph phase is SpecChars' and leaves the font's bounding box b here.
PostScan(b) ==
    /\ status = "scanned"
    /\ scanInfo' = info
    /\ fontBounds' = b
    /\ IF isdir /\ charData # None
       THEN \* assert charData is None (line 1218)
            /\ status' = "error"
            /\ UNCHANGED <<info, charData>>
       ELSE IF ~isdir /\ charData = None
       THEN \* _parseChars(None): TypeError (line 564)
            /\ status' = "error"
            /\ UNCHANGED <<info, charData>>
       ELSE /\ charData' = Some("lines")
            /\ IF fixOffsetMetrics(offsetMetrics, info, b) = None
               THEN status' = "error" /\ info' = info
               ELSE /\ status' = "fixed"
                    /\ info' = Val(fixOffsetMetrics(offsetMetrics, info, b))
    /\ UNCHANGED <<line, i, isdir, offsetMetrics>>
    /\ UNCHANGED <<feaVars, charVars, drawVars, otherVars>>

\* The end of parse() (lines 1252-1265), the feature writing in between being
\* SpecWrite's.
FinishParse ==
    /\ status = "fixed"
    /\ IF info["ascender"] = None \/ info["descender"] = None
       THEN status' = "error" /\ info' = info
       ELSE /\ status' = "done"
            /\ info' =
                [info EXCEPT
                    !["unitsPerEm"] = Some(Val(info["ascender"]) - Val(info["descender"])),
                    !["styleName"] =
                        IF info["styleName"] # None THEN @
                        ELSE IF /\ info["postscriptFontName"] # None
                                /\ Contains(Val(info["postscriptFontName"]), "-")
                        THEN LET n == Val(info["postscriptFontName"])
                             IN Some(SubSeq(n, Find(n, "-") + 1, Len(n)))
                        ELSE IF info["postscriptWeightName"] # None
                        THEN info["postscriptWeightName"]
                        ELSE Some("Regular")]
    /\ UNCHANGED <<line, i, isdir, offsetMetrics, charData, scanInfo, fontBounds>>
    /\ UNCHANGED <<feaVars, charVars, drawVars, otherVars>>

-----------------------------------------------------------------------------
(* _parseLookup, lines 617-643 *)

\* _LOOKUP_TYPES (lines 581-608); "" stands for a KeyError
LOOKUP_TYPES(kind) ==
    CASE kind = 1 -> "gsub_single"
      [] kind = 2 -> "gsub_multiple"
      [] kind = 3 -> "gsub_alternate"
      [] kind = 4 -> "gsub_ligature"
      [] kind = 5 -> "gsub_context"
      [] kind = 6 -> "gsub_contextchain"
      [] kind = 8 -> "gsub_reversecchain"
      [] kind = 253 -> "morx_indic"
      [] kind = 254 -> "morx_context"
      [] kind = 255 -> "morx_insert"
      [] kind = 257 -> "gpos_single"
      [] kind = 258 -> "gpos_pair"
      [] kind = 259 -> "gpos_cursive"
      [] kind = 260 -> "gpos_mark2base"
      [] kind = 261 -> "gpos_mark2ligature"
      [] kind = 262 -> "gpos_mark2mark"
      [] kind = 263 -> "gpos_context"
      [] kind = 264 -> "gpos_contextchain"
      [] kind = 511 -> "kern_statemachine"
      [] OTHER -> ""

\* _LOOKUP_FLAGS (lines 610-615), in sorted order
LOOKUP_FLAGS ==
    <<[bit |-> 1, name |-> "RightToLeft"], [bit |-> 2, name |-> "IgnoreBaseGlyphs"],
      [bit |-> 4, name |-> "IgnoreLigatures"], [bit |-> 8, name |-> "IgnoreMarks"]>>

\* flag & bit, for a bit that is a power of two
BitSet(flag, bit) == (flag \div bit) % 2 = 1

\* A Lookup record as LOOKUP_RE, FEATURE_RE, LANGSYS_RE and TAG_RE split it:
\* [kind, flag, name, subtables, features], features a sequence of
\* [tag, scripts], scripts a sequence of [script, langs].
\* The state st is [gsub, gpos, info]; None when Python raises.
parseLookup(rec, st) ==
    LET flags == SelectSeq([k \in 1..4 |-> LOOKUP_FLAGS[k]],
                           LAMBDA f : BitSet(rec.flag, f.bit))
    IN  IF LOOKUP_TYPES(rec.kind) = "" THEN None
        ELSE Some(
            [gsub |-> IF rec.kind \div 256 # 0 THEN st.gsub
                      ELSE Put(st.gsub, rec.name, rec.subtables),
             gpos |-> IF rec.kind \div 256 # 0
                      THEN Put(st.gpos, rec.name, rec.subtables) ELSE st.gpos,
             info |-> Put(st.info, rec.name,
                          [kind |-> LOOKUP_TYPES(rec.kind),
                           flags |-> [k \in 1..Len(flags) |-> flags[k].name],
                           features |-> rec.features])])

\* The Lookup records of a file, read in order.
RECURSIVE parseLookups(_, _)
parseLookups(recs, st) ==
    IF recs = <<>> THEN Some(st)
    ELSE LET r == parseLookup(Head(recs), st)
         IN IF r = None THEN None ELSE parseLookups(Tail(recs), Val(r))

-----------------------------------------------------------------------------
(* _santizeLookupName, lines 760-799 *)

AsciiLetters ==
    {Chr("abcdefghijklmnopqrstuvwxyzABCDEFGHIJKLMNOPQRSTUVWXYZ", n) : n \in 1..52}

\* The loop of lines 766-775 from position n on.  A character of code 127 or
\* more is skipped; in the model such a character is none of the kept ones.
RECURSIVE KeptChars(_, _)
KeptChars(lookup, n) ==
    IF n > Len(lookup) THEN ""
    ELSE LET ch == Chr(lookup, n)
         IN (IF ch \in AsciiLetters THEN ch
             ELSE IF ch \in {".", "_"} THEN ch
             ELSE IF n # 1 /\ ch \in DigitChars THEN ch
             ELSE "") \o KeptChars(lookup, n + 1)

\* out[:63]
MaxNameLen == 63
Truncate(s) == IF Len(s) > MaxNameLen THEN SubSeq(s, 1, MaxNameLen) ELSE s

\* _SHORT_LOOKUP_TYPES.get(kind, "unknown") (lines 742-758, 784)
SHORT_LOOKUP_TYPES(kind) ==
    CASE kind = "gsub_single" -> "single"
      [] kind = "gsub_multiple" -> "mult"
      [] kind = "gsub_alternate" -> "alt"
      [] kind = "gsub_ligature" -> "ligature"
      [] kind = "gsub_context" -> "context"
      [] kind = "gsub_contextchain" -> "chain"
      [] kind = "gsub_reversecchain" -> "reversecc"
      [] kind = "gpos_single" -> "single"
      [] kind = "gpos_pair" -> "pair"
      [] kind = "gpos_cursive" -> "cursive"
      [] kind = "gpos_mark2base" -> "mark2base"
      [] kind = "gpos_mark2ligature" -> "mark2liga"
      [] kind = "gpos_mark2mark" -> "mark2mark"
      [] kind = "gpos_context" -> "context"
      [] kind = "gpos_contextchain" -> "chain"
      [] OTHER -> "unknown"

\* feat and script of lines 782-789.  The loop runs over fealangsys[0], whose
\* first element is the tag itself: langsys[0] is then the tag's first
\* character (the tags of the model are not empty).
SynthFeat(fealangsys) == IF Len(fealangsys) > 0 THEN fealangsys[1].tag ELSE ""
RECURSIVE LastScript(_, _)
LastScript(scripts, script) ==
    IF scripts = <<>> THEN script
    ELSE LastScript(Tail(scripts),
                    IF Head(scripts).script # "DFLT" THEN Head(scripts).script ELSE script)
SynthScript(fealangsys) ==
    IF Len(fealangsys) > 0
    THEN LastScript(fealangsys[1].scripts, Chr(fealangsys[1].tag, 1))
    ELSE ""

\* "%s_%s_%s%s_%d" % (isgpos and "pos" or "sub", kind, feat, script, i)
SynthName(isgpos, linfo, n) ==
    (IF isgpos THEN "pos" ELSE "sub") \o "_" \o SHORT_LOOKUP_TYPES(linfo.kind) \o "_"
        \o SynthFeat(linfo.features) \o SynthScript(linfo.features) \o "_" \o IntToStr(n)

\* The loop without its test: the name of i = 0, taken or not.
FirstNameUnchecked(isgpos, linfo, taken) == SynthName(isgpos, linfo, 0)
\* The name the while loop of lines 790-797 ends with: the first of
\* i = 0, 2, 4, ... whose name is not taken.
FirstFreeName(isgpos, linfo, taken) ==
    LET n == CHOOSE n \in 0..Cardinality(taken) :
                /\ SynthName(isgpos, linfo, 2 * n) \notin taken
                /\ \A m \in 0..(n - 1) : SynthName(isgpos, linfo, 2 * m) \in taken
    IN  SynthName(isgpos, linfo, 2 * n)

\* self._santizeLookupName(lookup, isgpos): the new self._sanitizedLookupNames;
\* isgpos is <<>> (None) or <<BOOLEAN>>.  None when Python raises.
santizeLookupName(lookup, isgpos, names, linfos) ==
    IF HasKey(names, lookup) THEN Some(names)
    ELSE IF isgpos = None THEN None
    ELSE LET out == Truncate(KeptChars(lookup, 1))
         IN IF out \notin Values(names) THEN Some(Put(names, lookup, out))
            ELSE IF ~HasKey(linfos, lookup) THEN None
            ELSE Some(Put(names, lookup,
                          FirstFreeName(Val(isgpos), Get(linfos, lookup), Values(names))))

-----------------------------------------------------------------------------
(* _writeGSUBGPOS, lines 869-984, and what it calls *)

RECURSIVE Concat(_)
Concat(ss) == IF ss = <<>> THEN <<>> ELSE Head(ss) \o Concat(Tail(ss))

\* "sep".join(strs)
RECURSIVE Join(_, _)
Join(sep, strs) ==
    IF strs = <<>> THEN ""
    ELSE IF Len(strs) = 1 THEN strs[1]
    ELSE strs[1] \o sep \o Join(sep, Tail(strs))

\* str(n), "%g" % n for an integer n
IntStr(n) == IF n < 0 THEN "-" \o IntToStr(0 - n) ELSE IntToStr(n)

\* The order of str: by code point, character by character.  The table lists
\* the printable ASCII characters in code point order, less the double quote,
\* the backslash and the grave accent.
AsciiTable ==
    " !#$%&'()*+,-./0123456789:;<=>?@ABCDEFGHIJKLMNOPQRSTUVWXYZ[]^_abcdefghijklmnopqrstuvwxyz{|}~"
Ord(ch) == CHOOSE n \in 1..Len(AsciiTable) : Chr(AsciiTable, n) = ch
RECURSIVE StrLess(_, _)
StrLess(a, b) ==
    IF b = "" THEN FALSE
    ELSE IF a = "" THEN TRUE
    ELSE IF Chr(a, 1) = Chr(b, 1) THEN StrLess(Tail(a), Tail(b))
    ELSE Ord(Chr(a, 1)) < Ord(Chr(b, 1))

\* sorted(S) for scripts; sorted(S, key=lambda l: l == "dflt" and "0" or l) for
\* languages (lines 904-905)
SortKey(x, isLang) == IF isLang /\ x = "dflt" THEN "0" ELSE x
RECURSIVE Sorted(_, _)
Sorted(S, isLang) ==
    IF S = {} THEN <<>>
    ELSE LET m == CHOOSE x \in S :
                    \A y \in S : ~StrLess(SortKey(y, isLang), SortKey(x, isLang))
         IN <<m>> \o Sorted(S \ {m}, isLang)

\* _pruneSubtables (lines 813-821)
pruneNothing(subtables, gps, acs) == subtables
pruneSubtables(subtables, gps, acs) ==
    SelectSeq(subtables,
              LAMBDA sub : \/ \E n \in 1..Len(gps.keys) : HasKey(gps.map[n], sub)
                           \/ HasKey(acs, sub))

\* any(strs): some element is not the empty string
AnyTrue(strs) == \E n \in 1..Len(strs) : strs[n] # ""

\* The keys of lookups (lines 882-885): the lookups of the table that are kept
KeptLookups(table, gps, acs) ==
    SelectSeq(table.keys,
              LAMBDA lookup : AnyTrue(pruneSubtables(Get(table, lookup), gps, acs)))

\* featureSet (lines 890-897): the feature tags in the order first met
RECURSIVE Unique(_)
Unique(seq) ==
    IF seq = <<>> THEN <<>>
    ELSE LET last == seq[Len(seq)]
         IN CHOOSE out \in
            {IF last \in Range(init) THEN init ELSE Append(init, last) :
                init \in {Unique(SubSeq(seq, 1, Len(seq) - 1))}} : TRUE
FeatureSet(lookups, linfos) ==
    Unique(Concat([n \in 1..Len(lookups) |->
        LET fs == Get(linfos, lookups[n]).features
        IN [k \in 1..Len(fs) |-> fs[k].tag]]))

\* scriptSet and langSet (lines 898-905)
AllScripts(lookups, linfos) ==
    UNION {{sl.script : sl \in Range(fl.scripts)} :
            fl \in UNION {Range(Get(linfos, l).features) : l \in Range(lookups)}}
LangsOf(script, lookups, linfos) ==
    UNION {Range(sl.langs) :
            sl \in {x \in UNION {Range(fl.scripts) :
                        fl \in UNION {Range(Get(linfos, l).features) : l \in Range(lookups)}} :
                    x.script = script}}

\* outl (lines 913-922): the names of the lookups of one feature, script and
\* language, once per matching declaration, in the order of lookups
OutL(feature, script, language, lookups, linfos, names) ==
    Concat([n \in 1..Len(lookups) |->
        LET fs == Get(linfos, lookups[n]).features
        IN Concat([k \in 1..Len(fs) |->
            IF fs[k].tag # feature THEN <<>>
            ELSE Concat([j \in 1..Len(fs[k].scripts) |->
                IF fs[k].scripts[j].script # script THEN <<>>
                ELSE LET ls == SelectSeq(fs[k].scripts[j].langs, LAMBDA ll : ll = language)
                     IN [x \in 1..Len(ls) |-> Get(names, lookups[n])]])])])

\* The feature blocks (lines 907-928 and 968-978)
LanguageLines(feature, script, language, lookups, linfos, names) ==
    LET outl == OutL(feature, script, language, lookups, linfos, names)
    IN  IF outl = <<>> THEN <<>>
        ELSE <<"     language " \o language \o " "
                \o (IF language # "dflt" THEN "exclude_dflt" ELSE "") \o ";">>
             \o [k \in 1..Len(outl) |-> "      lookup " \o outl[k] \o ";"]
ScriptLines(feature, script, lookups, linfos, names) ==
    LET langs == Sorted(LangsOf(script, lookups, linfos), TRUE)
        body == Concat([k \in 1..Len(langs) |->
                    LanguageLines(feature, script, langs[k], lookups, linfos, names)])
    IN  IF body = <<>> THEN <<>> ELSE <<"", " script " \o script \o ";">> \o body
FeatureLines(feature, lookups, linfos, names) ==
    LET scripts == Sorted(AllScripts(lookups, linfos), FALSE)
        body == Concat([k \in 1..Len(scripts) |->
                    ScriptLines(feature, scripts[k], lookups, linfos, names)])
    IN  IF body = <<>> THEN <<>>
        ELSE <<"", "feature " \o feature \o " {">> \o body \o <<"} " \o feature \o ";">>

\* _sanitizeName (lines 801-811)
RECURSIVE sanitizeName(_)
sanitizeName(name) ==
    IF name = "" THEN ""
    ELSE LET ch == Chr(name, 1)
         IN (IF ch = " " THEN "_" ELSE "")
            \o (IF ch \in AsciiLetters \cup DigitChars \cup {".", "_"} THEN ch ELSE "")
            \o sanitizeName(Tail(name))

\* _dumpAnchor (lines 68-71), on None or Some(<<x, y, index>>)
dumpAnchor(anchor) ==
    IF anchor = None THEN "<anchor NULL>"
    ELSE "<anchor " \o IntStr(Val(anchor)[1]) \o " " \o IntStr(Val(anchor)[2]) \o ">"

\* d.get(k)
GetOpt(d, k) == IF HasKey(d, k) THEN Some(Get(d, k)) ELSE None

\* kind.split("2")[1] (line 863): None when there is no second part
SplitAt2(kind) ==
    LET n == Find(kind, "2")
        rest == SubSeq(kind, n + 1, Len(kind))
        m == Find(rest, "2")
    IN  IF n = 0 THEN None
        ELSE Some(IF m = 0 THEN rest ELSE SubSeq(rest, 1, m - 1))

\* The glyphs collected under one key of marks or bases (lines 844-851)
GlyphsOfKey(entries, key) ==
    LET sel == SelectSeq(entries, LAMBDA e : e.key = key)
    IN  [k \in 1..Len(sel) |-> sel[k].glyph]

\* _writeAnchorClass (lines 823-867): Some(lines), None when Python raises
writeAnchorClass(lookup, subtable, linfos, acs, gas, order) ==
    LET kind == Get(linfos, lookup).kind
        classes == Get(acs, subtable)
        found == Concat([c \in 1..Len(classes) |->
                    Concat([g \in 1..Len(order) |->
                        IF HasKey(gas, order[g])
                           /\ HasKey(Get(gas, order[g]), classes[c])
                        THEN <<[class |-> classes[c], glyph |-> order[g],
                                anchor |-> Get(Get(gas, order[g]), classes[c])]>>
                        ELSE <<>>])])
        cursive == Concat([k \in 1..Len(found) |->
                    LET entry == GetOpt(found[k].anchor, "entry")
                        exit == GetOpt(found[k].anchor, "exit")
                    IN IF entry # None \/ exit # None
                       THEN <<"    pos cursive \\" \o found[k].glyph \o " "
                               \o dumpAnchor(entry) \o " " \o dumpAnchor(exit) \o ";">>
                       ELSE <<>>])
        markOf(a) == GetOpt(a, "mark")
        baseOf(a) == IF HasKey(a, "basechar") THEN GetOpt(a, "basechar")
                     ELSE GetOpt(a, "basemark")
        markEntries == Concat([k \in 1..Len(found) |->
                    IF markOf(found[k].anchor) = None THEN <<>>
                    ELSE LET mark == Val(markOf(found[k].anchor))
                         IN <<[key |-> <<mark[1], mark[2], found[k].class>>,
                               glyph |-> found[k].glyph]>>])
        baseEntries == Concat([k \in 1..Len(found) |->
                    IF baseOf(found[k].anchor) = None THEN <<>>
                    ELSE LET base == Val(baseOf(found[k].anchor))
                         IN <<[key |-> <<base[1], base[2], found[k].class>>,
                               glyph |-> found[k].glyph]>>])
        marks == Unique([k \in 1..Len(markEntries) |-> markEntries[k].key])
        bases == Unique([k \in 1..Len(baseEntries) |-> baseEntries[k].key])
        markLines == [k \in 1..Len(marks) |->
                    "  markClass [\\" \o Join(" \\", GlyphsOfKey(markEntries, marks[k]))
                    \o " ] " \o dumpAnchor(Some(marks[k])) \o " @"
                    \o sanitizeName(marks[k][3]) \o ";"]
        pos == SplitAt2(kind)
        baseLines == [k \in 1..Len(bases) |->
                    "  pos " \o Val(pos) \o " [\\"
                    \o Join(" \\", GlyphsOfKey(baseEntries, bases[k]))
                    \o " ] " \o dumpAnchor(Some(bases[k])) \o " mark @"
                    \o sanitizeName(bases[k][3]) \o ";"]
    IN  IF kind = "gpos_cursive" THEN Some(cursive)
        ELSE IF bases # <<>> /\ (pos = None \/ pos = Some("ligature")) THEN None
        ELSE Some(markLines \o baseLines)

\* A value of a possub list: a word of the record ([g |-> word]) or the integer
\* _parsePosSub made of it ([n |-> value]).
IsWord(tok) == "g" \in DOMAIN tok
TokStr(tok) == IF IsWord(tok) THEN tok.g ELSE IntStr(tok.n)
Strs(toks) == [k \in 1..Len(toks) |-> TokStr(toks[k])]
AllWords(toks) == \A k \in 1..Len(toks) : IsWord(toks[k])

\* The statement of one (key, possub) of a glyph (lines 947-965):
\* [line, possub], possub being the list as the statement leaves it; None when
\* Python raises.
RuleLine(kind, glyph, possub) ==
    IF StartsWith(kind, "gsub_") /\ ~AllWords(possub) THEN None
    ELSE IF kind \in {"gsub_single", "gsub_multiple"}
    THEN Some([line |-> "    sub \\" \o glyph \o " by \\"
                        \o Join(" \\", Strs(possub)) \o " ;", possub |-> possub])
    ELSE IF kind = "gsub_alternate"
    THEN Some([line |-> "    sub \\" \o glyph \o " from [\\"
                        \o Join(" \\", Strs(possub)) \o " ];", possub |-> possub])
    ELSE IF kind = "gsub_ligature"
    THEN Some([line |-> "    sub \\" \o Join(" \\", Strs(possub)) \o "  by \\"
                        \o glyph \o ";", possub |-> possub])
    ELSE IF kind = "gpos_single"
    THEN Some([line |-> "    pos \\" \o glyph \o " <" \o Join(" ", Strs(possub)) \o ">;",
               possub |-> possub])
    ELSE IF kind = "gpos_pair"
    THEN IF possub = <<>> THEN None
         ELSE LET rest == Tail(possub)
                  pos1 == SubSeq(rest, 1, IF Len(rest) < 4 THEN Len(rest) ELSE 4)
                  pos2 == SubSeq(rest, 5, Len(rest))
              IN Some([line |-> "    pos \\" \o glyph \o " <" \o Join(" ", Strs(pos1))
                                \o "> \\" \o TokStr(Head(possub)) \o " <"
                                \o Join(" ", Strs(pos2)) \o ">;",
                       possub |-> rest])
    ELSE None

\* The loop of line 946 over the (key, possub) list of one glyph and subtable:
\* [lines, frags], frags being the list as the loop leaves it.
RECURSIVE RuleLines(_, _, _)
RuleLines(kind, glyph, frags) ==
    IF frags = <<>> THEN Some([lines |-> <<>>, frags |-> <<>>])
    ELSE CHOOSE out \in
            {IF r = None \/ rest = None THEN None
             ELSE Some([lines |-> <<Val(r).line>> \o Val(rest).lines,
                        frags |-> <<[key |-> Head(frags).key,
                                     possub |-> Val(r).possub]>>
                                  \o Val(rest).frags]) :
                r \in {RuleLine(kind, glyph, Head(frags).possub)},
                rest \in {RuleLines(kind, glyph, Tail(frags))}} : TRUE

\* The loop of lines 944-965 over the glyphs of _glyphPosSub from the n-th on:
\* [lines, gps], gps being _glyphPosSub as the loop leaves it.
RECURSIVE SubtableLines(_, _, _, _)
SubtableLines(kind, subtable, gps, n) ==
    IF n > Len(gps.keys) THEN Some([lines |-> <<>>, gps |-> gps])
    ELSE IF ~HasKey(gps.map[n], subtable) THEN SubtableLines(kind, subtable, gps, n + 1)
    ELSE CHOOSE out \in
            {IF r = None THEN None
             ELSE CHOOSE o \in
                    {IF rest = None THEN None
                     ELSE Some([lines |-> Val(r).lines \o Val(rest).lines,
                                gps |-> Val(rest).gps]) :
                        rest \in {SubtableLines(kind, subtable,
                                    [gps EXCEPT !.map[n] = Put(@, subtable, Val(r).frags)],
                                    n + 1)}} : TRUE :
                r \in {RuleLines(kind, gps.keys[n], Get(gps.map[n], subtable))}} : TRUE

\* The loop of lines 940-965 over the subtables of a lookup.  cx holds what the
\* loop reads and does not change: [linfos, acs, gas, order, names].
RECURSIVE LookupBody(_, _, _, _)
LookupBody(lookup, subtables, gps, cx) ==
    IF subtables = <<>> THEN Some([lines |-> <<>>, gps |-> gps])
    ELSE LET subtable == Head(subtables)
         IN CHOOSE out \in
            {IF r = None THEN None
             ELSE CHOOSE o \in
                    {IF rest = None THEN None
                     ELSE Some([lines |-> Val(r).lines \o Val(rest).lines,
                                gps |-> Val(rest).gps]) :
                        rest \in {LookupBody(lookup, Tail(subtables), Val(r).gps, cx)}} : TRUE :
                r \in {IF HasKey(cx.acs, subtable)
                       THEN CHOOSE o \in
                            {IF a = None THEN None
                             ELSE Some([lines |-> Val(a), gps |-> gps]) :
                                a \in {writeAnchorClass(lookup, subtable, cx.linfos,
                                                        cx.acs, cx.gas, cx.order)}} : TRUE
                       ELSE SubtableLines(Get(cx.linfos, lookup).kind, subtable, gps, 1)}}
            : TRUE

\* The loop of lines 934-966 over the kept lookups
RECURSIVE LookupBlocks(_, _, _, _)
LookupBlocks(lookups, table, gps, cx) ==
    IF lookups = <<>> THEN Some([lines |-> <<>>, gps |-> gps])
    ELSE LET lookup == Head(lookups)
             flags == Get(cx.linfos, lookup).flags
         IN CHOOSE out \in
            {IF r = None THEN None
             ELSE CHOOSE o \in
                    {IF rest = None THEN None
                     ELSE Some([lines |->
                                <<"", "lookup " \o Get(cx.names, lookup) \o " {",
                                  "  lookupflag "
                                    \o (IF flags # <<>> /\ Join(" ", flags) # ""
                                        THEN Join(" ", flags) ELSE "0") \o ";">>
                                \o Val(r).lines
                                \o <<"} " \o Get(cx.names, lookup) \o ";">>
                                \o Val(rest).lines,
                                gps |-> Val(rest).gps]) :
                        rest \in {LookupBlocks(Tail(lookups), table, Val(r).gps, cx)}} : TRUE :
                r \in {LookupBody(lookup, Get(table, lookup), gps, cx)}} : TRUE

\* _santizeLookupName over the lookups of the table (lines 878-879)
RECURSIVE SanitizeAll(_, _, _, _)
SanitizeAll(lookups, isgpos, names, linfos) ==
    IF lookups = <<>> THEN Some(names)
    ELSE CHOOSE out \in
            {IF r = None THEN None
             ELSE SanitizeAll(Tail(lookups), isgpos, Val(r), linfos) :
                r \in {santizeLookupName(Head(lookups), Some(isgpos), names, linfos)}} : TRUE

\* _writeGSUBGPOS (lines 869-984) on the state [names, gps, text]; cx holds
\* [gsub, gpos, linfos, acs, gas, order].  None when Python raises.
writeGSUBGPOS(isgpos, st, cx) ==
    LET table == IF isgpos THEN cx.gpos ELSE cx.gsub
        Write(names, lookups) ==
            LET featureSet == FeatureSet(lookups, cx.linfos)
                features == Concat([k \in 1..Len(featureSet) |->
                                FeatureLines(featureSet[k], lookups, cx.linfos, names)])
            IN  CHOOSE out \in
                {IF blocks = None THEN None
                 ELSE Some([names |-> names, gps |-> Val(blocks).gps,
                            text |-> Some((IF st.text = None THEN "\n" ELSE Val(st.text))
                                \o Join("\n",
                                    <<"# " \o (IF isgpos THEN "GPOS" ELSE "GSUB") \o " ", "">>
                                    \o Val(blocks).lines \o features \o <<"">>))]) :
                    blocks \in {LookupBlocks(lookups, table, st.gps,
                                    [linfos |-> cx.linfos, acs |-> cx.acs, gas |-> cx.gas,
                                     order |-> cx.order, names |-> names])}} : TRUE
    IN  CHOOSE out \in
        {IF named = None THEN None
         ELSE IF lookups = <<>>
         THEN Some([names |-> Val(named), gps |-> st.gps, text |-> st.text])
         ELSE Write(Val(named), lookups) :
            named \in {SanitizeAll(table.keys, isgpos, st.names, cx.linfos)},
            lookups \in {KeptLookups(table, st.gps, cx.acs)}} : TRUE

-----------------------------------------------------------------------------
(* _parseChars, _parseChar, _parseKerns and _processKerns, lines 356-364 and
   454-579 *)

\* s.split(sep), for a separator that is not empty
RECURSIVE SplitOn(_, _)
SplitOn(s, sep) ==
    LET n == Find(s, sep)
    IN  IF n = 0 THEN <<s>>
        ELSE <<SubSeq(s, 1, n - 1)>> \o SplitOn(SubSeq(s, n + Len(sep), Len(s)), sep)

\* s.split(): the words between runs of whitespace
RECURSIVE Words(_)
Words(s) ==
    LET t == LStrip(s)
        ends == {n \in 1..Len(t) : Chr(t, n) \in Whitespace}
        n == IF ends = {} THEN Len(t) + 1
             ELSE CHOOSE e \in ends : \A f \in ends : e <= f
    IN  IF t = "" THEN <<>>
        ELSE <<SubSeq(t, 1, n - 1)>> \o Words(SubSeq(t, n, Len(t)))

\* seq[k] of Python for k >= -len(seq): None when IndexError is raised
PyIndex(seq, k) ==
    IF 0 <= k /\ k < Len(seq) THEN Some(seq[k + 1])
    ELSE IF k < 0 /\ 0 - k <= Len(seq) THEN Some(seq[Len(seq) + k + 1])
    ELSE None

\* [int(v) for v in words]: None when one of them raises
Ints(words) ==
    IF \E k \in 1..Len(words) : IntOf(Some(words[k])) = None THEN None
    ELSE Some([k \in 1..Len(words) |-> Val(IntOf(Some(words[k])))])

\* KERNS_RE.findall(data) (lines 24-30, 358) on the words of data from the p-th
\* on: the <<gid, kern>> of each number, number, quoted name met.
IsNumber(w) == IntOf(Some(w)) # None
IsQuoted(w) == Len(w) >= 2 /\ Chr(w, 1) = "\"" /\ Chr(w, Len(w)) = "\""
RECURSIVE KernsFindAll(_, _)
KernsFindAll(words, p) ==
    IF p + 2 > Len(words) THEN <<>>
    ELSE IF IsNumber(words[p]) /\ IsNumber(words[p + 1]) /\ IsQuoted(words[p + 2])
    THEN <<<<Val(IntOf(Some(words[p]))), Val(IntOf(Some(words[p + 1])))>>>>
         \o KernsFindAll(words, p + 3)
    ELSE KernsFindAll(words, p + 1)

\* _parseKerns (lines 356-364) on self._glyphKerns: None when an assert fails
parseKerns(kerns, name, value) ==
    IF HasKey(kerns, name) \/ value = None THEN None
    ELSE LET found == KernsFindAll(Words(Val(value)), 1)
         IN IF found = <<>> THEN None ELSE Some(Put(kerns, name, found))

\* font.newGlyph(name) (line 459): the glyphs of a layer are kept by name, and
\* a new glyph takes the place of a glyph of the same name.
\* glyphclass is glyph.lib.get(GLYPHCLASS_KEY): None while the key is absent.
GLYPH_CLASSES ==
    <<"automatic", "noclass", "baseglyph", "baseligature", "mark", "component">>
\* anchors is glyph.anchors, the anchors appended to the glyph.
NewGlyph == [width |-> 0, unicodes |-> <<>>, glyphclass |-> None, anchors |-> <<>>]
newGlyph(glyphs, name) ==
    IF HasKey(glyphs, name)
    THEN LET n == CHOOSE k \in 1..Len(glyphs.keys) : glyphs.keys[k] = name
             without == [keys |-> SelectSeq(glyphs.keys, LAMBDA g : g # name),
                         map |-> SubSeq(glyphs.map, 1, n - 1)
                                 \o SubSeq(glyphs.map, n + 1, Len(glyphs.map))]
         IN Put(without, name, NewGlyph)
    ELSE Put(glyphs, name, NewGlyph)

\* One pass of the loop of _parseChar (lines 464-536) over a line of the
\* section, on the locals [glyph, unicodes, order, kerns]; order is None until
\* an Encoding record binds it.  None when Python raises.
charLine(name, l, loc) ==
    LET parts == SplitOn(l, ": ")
        key == parts[1]
        value == IF Len(parts) = 1 THEN None
                 ELSE Some(SubSeq(l, Len(key) + 3, Len(l)))
    IN  IF key = "Width"
        THEN IF IntOf(value) = None THEN None
             ELSE Some([loc EXCEPT !.glyph.width = Val(IntOf(value))])
        ELSE IF key = "Encoding"
        THEN IF value = None THEN None
             ELSE LET v == Ints(Words(Val(value)))
                  IN IF v = None \/ Len(Val(v)) # 3 THEN None
                     ELSE Some([loc EXCEPT
                            !.unicodes = IF Val(v)[2] >= 0 THEN Append(@, Val(v)[2]) ELSE @,
                            !.order = Some(Val(v)[3])])
        ELSE IF key = "GlyphClass"
        THEN IF IntOf(value) = None THEN None
             ELSE IF PyIndex(GLYPH_CLASSES, Val(IntOf(value))) = None THEN None
             ELSE Some([loc EXCEPT
                    !.glyph.glyphclass = PyIndex(GLYPH_CLASSES, Val(IntOf(value)))])
        ELSE IF key = "Kerns2"
        THEN LET k == parseKerns(loc.kerns, name, value)
             IN IF k = None THEN None ELSE Some([loc EXCEPT !.kerns = Val(k)])
        ELSE Some(loc)

RECURSIVE charLinesFrom(_, _, _)
charLinesFrom(name, ls, loc) ==
    IF ls = <<>> THEN Some(loc)
    ELSE CHOOSE out \in
            {IF r = None THEN None ELSE charLinesFrom(name, Tail(ls), Val(r)) :
                r \in {charLine(name, Head(ls), loc)}} : TRUE

\* _parseChar (lines 454-542) on [glyphs, kerns]: the state it leaves, the name
\* and the order it returns; None when Python raises.
parseChar(section, st) ==
    LET parts == SplitOn(Head(section), ": ")
        name == parts[2]
    IN  IF Len(parts) # 2 THEN None
        ELSE CHOOSE out \in
            {IF r = None THEN None
             ELSE IF Val(r).order = None THEN None
             ELSE Some([glyphs |-> Put(newGlyph(st.glyphs, name), name,
                                       [Val(r).glyph EXCEPT !.unicodes = Val(r).unicodes]),
                        kerns |-> Val(r).kerns,
                        name |-> name, order |-> Val(Val(r).order)]) :
                r \in {charLinesFrom(name, Tail(section),
                            [glyph |-> NewGlyph, unicodes |-> <<>>, order |-> None,
                             kerns |-> st.kerns])}} : TRUE

\* One pass of the loop of _parseChars (lines 566-573) on
\* [data, i, n, glyphs, kerns, map, ok]: n counts the StartChar sections parsed,
\* ok turns FALSE when Python raises.
charsStep(st) ==
    LET l == st.data[st.i + 1]
        ends == {j \in (st.i + 2)..Len(st.data) : StartsWith(st.data[j], "EndChar")}
        end == CHOOSE j \in ends : \A k \in ends : j <= k
    IN  IF ~StartsWith(l, "StartChar") THEN [st EXCEPT !.i = @ + 1]
        ELSE IF ends = {} THEN [st EXCEPT !.ok = FALSE]
        ELSE CHOOSE out \in
            {IF r = None THEN [st EXCEPT !.ok = FALSE]
             ELSE [st EXCEPT !.i = end, !.n = @ + 1,
                             !.glyphs = Val(r).glyphs, !.kerns = Val(r).kerns,
                             !.map = Put(@, Val(r).name, Val(r).order)] :
                r \in {parseChar(<<l>> \o SubSeq(st.data, st.i + 2, end - 1),
                                 [glyphs |-> st.glyphs, kerns |-> st.kerns])}} : TRUE

\* data = [l.strip() for l in data if l.strip()] (line 564)
StripLines(lines) ==
    LET kept == SelectSeq(lines, LAMBDA l : Strip(l) # "")
    IN  [k \in 1..Len(kept) |-> Strip(kept[k])]

\* _parseChars up to its assert, on the lines of a glyph block and a new font
RECURSIVE charsLoop(_)
charsLoop(st) ==
    IF ~st.ok \/ st.i >= Len(st.data) THEN st
    ELSE CHOOSE out \in {charsLoop(next) : next \in {charsStep(st)}} : TRUE
runChars(lines) ==
    charsLoop([data |-> StripLines(lines), i |-> 0, n |-> 0, glyphs |-> EmptyDict,
               kerns |-> EmptyDict, map |-> EmptyDict, ok |-> TRUE])

\* sorted(glyphOrderMap, key=glyphOrderMap.get) (line 579): the names by rank,
\* names of equal rank in the order of the dict
RECURSIVE SortedByRank(_, _)
SortedByRank(names, map) ==
    IF names = <<>> THEN <<>>
    ELSE LET first == CHOOSE k \in 1..Len(names) :
                        /\ \A j \in 1..Len(names) : Get(map, names[k]) <= Get(map, names[j])
                        /\ \A j \in 1..(k - 1) : Get(map, names[j]) # Get(map, names[k])
         IN <<names[first]>>
            \o SortedByRank(SubSeq(names, 1, first - 1)
                            \o SubSeq(names, first + 1, Len(names)), map)

\* The key of font.kerning for a pair (line 558)
KernKeySwapped(name1, name2) == <<name2, name1>>
KernKey(name1, name2) == <<name1, name2>>

\* The inner loop of _processKerns (lines 556-558) for one glyph, on
\* [kerning, ok]
RECURSIVE kernsOf(_, _, _, _)
kernsOf(name1, list, order, st) ==
    IF list = <<>> \/ ~st.ok THEN st
    ELSE LET name2 == PyIndex(order, Head(list)[1])
         IN CHOOSE out \in
            {kernsOf(name1, Tail(list), order, next) :
                next \in {IF name2 = None THEN [st EXCEPT !.ok = FALSE]
                          ELSE [st EXCEPT !.kerning =
                                    Put(@, KernKey(name1, Val(name2)), Head(list)[2])]}} : TRUE

\* _processKerns (lines 554-558) from the n-th glyph of _glyphKerns on
RECURSIVE processKerns(_, _, _, _)
processKerns(kerns, n, order, st) ==
    IF n > Len(kerns.keys) \/ ~st.ok THEN st
    ELSE CHOOSE out \in
            {processKerns(kerns, n + 1, order, next) :
                next \in {kernsOf(kerns.keys[n], kerns.map[n], order, st)}} : TRUE

-----------------------------------------------------------------------------
(* _drawContours, lines 259-308 *)

\* An element of a contour is a segment (pts, segmentType, flags) or, at the
\* end, the name of the contour (lines 242, 263).
IsSegment(e) == "pts" \in DOMAIN e

\* flag (lines 268-270): None when int raises
FlagOf(flags) == IntOf(Some(SplitOn(SplitOn(flags, ",")[1], "x")[1]))

\* A point of ufoContour: (pt, segmentType, smooth), the last two None for an
\* off-curve point
UfoPoint(pt, segmentType, smooth) ==
    [pt |-> pt, segmentType |-> segmentType, smooth |-> smooth]
OffCurve(pts) == [k \in 1..Len(pts) |-> UfoPoint(pts[k], None, None)]

\* assert pts[0] == pts[1] (line 286)
QuadraticAny(pts) == TRUE
QuadraticOk(pts) == pts[1] = pts[2]

\* One pass of the loop of lines 267-296 on [ufoContour, forceOpen]; None when
\* Python raises.
drawSegment(seg, quad, st) ==
    LET f == FlagOf(seg.flags)
        flag == Val(f)
        open == st.forceOpen \/ BitSet(flag, 1024)
        smooth == Some(flag % 4 # 1)
        pts == seg.pts
    IN  IF f = None THEN None
        ELSE IF seg.segmentType = "m"
        THEN Some([ufoContour |-> Append(st.ufoContour, UfoPoint(pts[1], Some("move"), smooth)),
                   forceOpen |-> open])
        ELSE IF seg.segmentType = "l"
        THEN Some([ufoContour |-> Append(st.ufoContour, UfoPoint(pts[1], Some("line"), smooth)),
                   forceOpen |-> open])
        ELSE IF quad
        THEN IF ~QuadraticOk(pts) THEN None
             ELSE IF BitSet(flag, 128)
             THEN Some([ufoContour |-> st.ufoContour \o OffCurve(Tail(pts)),
                        forceOpen |-> open])
             ELSE Some([ufoContour |->
                            st.ufoContour
                            \o OffCurve(SubSeq(pts, 2, Len(pts) - 1))
                            \o <<UfoPoint(pts[Len(pts)], Some("qcurve"), smooth)>>,
                        forceOpen |-> open])
        ELSE Some([ufoContour |->
                        st.ufoContour
                        \o OffCurve(SubSeq(pts, 1, Len(pts) - 1))
                        \o <<UfoPoint(pts[Len(pts)], Some("curve"), smooth)>>,
                   forceOpen |-> open])

\* The closing step (lines 299-303)
closePathKeepFirst(ufo, open) ==
    IF ~open /\ Len(ufo) > 1 /\ ufo[1].pt = ufo[Len(ufo)].pt
    THEN SubSeq(ufo, 1, Len(ufo) - 1) ELSE ufo
closePath(ufo, open) ==
    IF ~open /\ Len(ufo) > 1 /\ ufo[1].pt = ufo[Len(ufo)].pt
    THEN <<ufo[Len(ufo)]>> \o SubSeq(ufo, 2, Len(ufo) - 1)
    ELSE ufo

\* The segments of the contour: the name, when it is last, is popped (lines 263-264)
Segments(c) == IF IsSegment(c[Len(c)]) THEN c ELSE SubSeq(c, 1, Len(c) - 1)

\* The calls of lines 305-308
PenCalls(ufo) ==
    <<[call |-> "beginPath"]>>
    \o [k \in 1..Len(ufo) |->
            [call |-> "addPoint", pt |-> ufo[k].pt,
             segmentType |-> ufo[k].segmentType, smooth |-> ufo[k].smooth]]
    \o <<[call |-> "endPath"]>>

\* The loop over the segments of a contour (lines 267-296) on
\* [ufoContour, forceOpen]; None when Python raises
RECURSIVE drawSegments(_, _, _)
drawSegments(segs, quad, st) ==
    IF segs = <<>> THEN Some(st)
    ELSE CHOOSE out \in
            {IF r = None THEN None ELSE drawSegments(Tail(segs), quad, Val(r)) :
                r \in {drawSegment(Head(segs), quad, st)}} : TRUE

\* _drawContours (lines 259-308) on the calls the pen of the glyph has
\* received: [calls, ok], ok FALSE when Python raises
RECURSIVE drawContours(_, _, _)
drawContours(contours, quad, calls) ==
    IF contours = <<>> THEN [calls |-> calls, ok |-> TRUE]
    ELSE CHOOSE out \in
            {IF r = None THEN [calls |-> calls, ok |-> FALSE]
             ELSE drawContours(Tail(contours), quad,
                    calls \o PenCalls(closePath(Val(r).ufoContour, Val(r).forceOpen))) :
                r \in {drawSegments(Segments(Head(contours)), quad,
                                    [ufoContour |-> <<>>, forceOpen |-> FALSE])}} : TRUE

-----------------------------------------------------------------------------
(* _writeGDEF *)

\* classNames (lines 677-681), in insertion order
GdefClassNames ==
    <<<<"baseglyph", "@GDEF_Simple">>, <<"baseligature", "@GDEF_Ligature">>,
      <<"mark", "@GDEF_Mark">>, <<"component", "@GDEF_Component">>>>

\* kind == "Ligature" for a fragment some subtable of the glyph holds
\* (lines 690-695)
OwnsLigature(name, gps) ==
    /\ HasKey(gps, name)
    /\ \E k \in 1..Len(Get(gps, name).map) :
        \E f \in Range(Get(gps, name).map[k]) : f.key = "Ligature"

\* The key of gdef a glyph is appended under (lines 685-699); None for the
\* glyph the loop passes over.
GdefClassOf(name, glyphs, gps) ==
    LET glyphclass == Get(glyphs, name).glyphclass
    IN  IF glyphclass # None THEN glyphclass
        ELSE IF name = ".notdef" THEN None
        ELSE IF OwnsLigature(name, gps) THEN Some("baseligature")
        ELSE Some("baseglyph")

\* gdef[class], <<>> when the key is not in gdef
GdefBucket(class, order, glyphs, gps) ==
    SelectSeq(order, LAMBDA g : GdefClassOf(g, glyphs, gps) = Some(class))

\* The loop over the glyphs of a class (lines 713-718), on the line being
\* written and the column count n
RECURSIVE GdefGlyphList(_, _, _)
GdefGlyphList(glyphs, text, n) ==
    IF glyphs = <<>> THEN text
    ELSE LET glyph == Head(glyphs)
             wrap == n + Len(glyph) + 1 > 80
         IN GdefGlyphList(Tail(glyphs),
                          (IF wrap THEN text \o "\n\t" ELSE text) \o "\\" \o glyph \o " ",
                          (IF wrap THEN 8 ELSE n) + Len(glyph) + 1)

\* The lines of the class definitions (lines 707-719)
GdefClassLines(order, glyphs, gps) ==
    Concat([k \in 1..Len(GdefClassNames) |->
        LET classname == GdefClassNames[k][2]
            bucket == GdefBucket(GdefClassNames[k][1], order, glyphs, gps)
        IN  IF bucket = <<>> THEN <<>>
            ELSE <<GdefGlyphList(bucket, classname \o " = [", Len(classname) + 8)
                   \o "];">>])

\* The lines of _writeGDEF (lines 704-736)
GdefLines(order, glyphs, gps, carets) ==
    LET names == [k \in 1..Len(GdefClassNames) |->
                    IF GdefBucket(GdefClassNames[k][1], order, glyphs, gps) = <<>>
                    THEN "" ELSE GdefClassNames[k][2]]
    IN  <<"#Mark attachment classes (defined in GDEF, used in lookupflags)", "">>
        \o GdefClassLines(order, glyphs, gps)
        \o <<"", "table GDEF {", "  GlyphClassDef " \o Join(", ", names) \o ";", "">>
        \o [k \in 1..Len(carets.keys) |->
                "  LigatureCaretByPos \\" \o carets.keys[k] \o " "
                \o Join(" ", [j \in 1..Len(carets.map[k]) |-> IntStr(carets.map[k][j])])
                \o ";"]
        \o <<"} GDEF;", "", "">>

\* The GDEF block written ahead of the text found
writeGDEFAhead(order, glyphs, gps, carets, text) ==
    Some(Some("\n" \o Join("\n", GdefLines(order, glyphs, gps, carets))
              \o (IF text = None THEN "" ELSE Tail(Val(text)))))

\* _writeGDEF (lines 675-740): font.features.text as it leaves it; None when
\* font[name] raises for a name of the glyph order the font does not hold.
writeGDEF(order, glyphs, gps, carets, text) ==
    IF \E k \in 1..Len(order) : ~HasKey(glyphs, order[k]) THEN None
    ELSE Some(Some((IF text = None THEN "\n" ELSE Val(text))
                   \o Join("\n", GdefLines(order, glyphs, gps, carets))))

-----------------------------------------------------------------------------
(* _parseAnchorPoint *)

\* ANCHOR_RE.match(data) (lines 31-38, 400-406) for a name without blanks and
\* integer coordinates: <<name, x, y, kind, index>>, None when there is no
\* match.  The index is the one digit the pattern takes.
anchorMatch(data) ==
    LET words == Words(data)
    IN  IF /\ Len(words) >= 5
           /\ Chr(data, 1) = "\"" /\ IsQuoted(words[1])
           /\ IsNumber(words[2]) /\ IsNumber(words[3])
           /\ Chr(words[5], 1) \in DigitChars
        THEN Some(<<SubSeq(words[1], 2, Len(words[1]) - 1),
                    Val(IntOf(Some(words[2]))), Val(IntOf(Some(words[3]))),
                    words[4], DigitValue(Chr(words[5], 1))>>)
        ELSE None

\* utils.parseAnchorPoint([name, kind, x, y, index]): the anchor the glyph
\* gets, made of the values handed over
parseAnchorPoint(a) == [name |-> a[1], kind |-> a[2], x |-> a[3], y |-> a[4], index |-> a[5]]

\* The test of _parseAnchorPoint (line 408)
storeOnGlyphAlways(ufo_anchors) == TRUE
storeOnGlyph(ufo_anchors) == ufo_anchors

\* _parseAnchorPoint (lines 399-415) on [glyphs, gas] for the glyph named:
\* None when the assert fails
parseAnchorPointRecord(name, data, ufo_anchors, st) ==
    LET m == anchorMatch(data)
        a == Val(m)
        ofGlyph == IF HasKey(st.gas, name) THEN Get(st.gas, name) ELSE EmptyDict
        ofClass == IF HasKey(ofGlyph, a[1]) THEN Get(ofGlyph, a[1]) ELSE EmptyDict
    IN  IF m = None THEN None
        ELSE IF storeOnGlyph(ufo_anchors)
        THEN Some([glyphs |->
                      Put(st.glyphs, name,
                          [Get(st.glyphs, name) EXCEPT !.anchors =
                              Append(@, parseAnchorPoint(<<a[1], a[4], a[2], a[3], a[5]>>))]),
                   gas |-> st.gas])
        ELSE Some([glyphs |-> st.glyphs,
                   gas |-> Put(st.gas, name,
                               Put(ofGlyph, a[1], Put(ofClass, a[4], <<a[2], a[3], a[5]>>)))])

-----------------------------------------------------------------------------
(* _getSection *)

\* _getSection(data, i, end, value) (lines 218-227), at being its i, which
\* counts from 0: <<section, cursor>>, None when data[i] raises IndexError.
RECURSIVE getSectionFrom(_, _, _, _)
getSectionFrom(data, at, end, section) ==
    IF at >= Len(data) THEN None
    ELSE IF StartsWith(data[at + 1], end) THEN Some(<<section, at + 1>>)
    ELSE getSectionFrom(data, at + 1, end, Append(section, data[at + 1]))

getSection(data, at, end, value) ==
    getSectionFrom(data, at, end, IF value = None THEN <<>> ELSE <<Val(value)>>)

-----------------------------------------------------------------------------
(* _parseSplineSet *)

\* utils.SFDReadUTF7(text) for text in ASCII: the text without the double
\* quotes around it
SFDReadUTF7(text) ==
    IF Len(text) >= 2 /\ Chr(text, 1) = "\"" /\ Chr(text, Len(text)) = "\""
    THEN SubSeq(text, 2, Len(text) - 1) ELSE text

\* _splitList(data, 2) (lines 61-63)
RECURSIVE splitList2(_)
splitList2(data) ==
    IF Len(data) <= 2 THEN (IF data = <<>> THEN <<>> ELSE <<data>>)
    ELSE <<SubSeq(data, 1, 2)>> \o splitList2(SubSeq(data, 3, Len(data)))

\* GLYPH_SEGMENT_RE.split(line) (lines 23, 244), each part stripped: the three
\* parts when the pattern matches once, None when the unpacking raises.
\* Matches do not overlap: a second one starts three characters or more
\* after the first.
segmentSplit(ln) ==
    LET at == {n \in 1..(Len(ln) - 2) :
                /\ Chr(ln, n) \in Whitespace
                /\ Chr(ln, n + 1) \in {"l", "m", "c"}
                /\ Chr(ln, n + 2) \in Whitespace}
        first == CHOOSE n \in at : \A k \in at : n <= k
    IN  IF at = {} THEN None
        ELSE IF \E n \in at : n >= first + 3 THEN None
        ELSE Some(<<Strip(SubSeq(ln, 1, first - 1)), Chr(ln, first + 1),
                    Strip(SubSeq(ln, first + 3, Len(ln)))>>)

\* The else branch of _parseSplineSet (lines 244-255) for a line of geometry:
\* the contours after it, None when Python raises.  float(c) is taken for the
\* integer literals.
segmentLine(ln, contours) ==
    LET parts == segmentSplit(ln)
        nums == Ints(SplitOn(Val(parts)[1], " "))
        pts == splitList2(Val(nums))
        seg == [pts |-> pts, segmentType |-> Val(parts)[2], flags |-> Val(parts)[3]]
        last == Len(contours)
    IN  IF parts = None THEN None
        ELSE IF nums = None THEN None
        ELSE IF seg.segmentType = "m"
        THEN (IF Len(pts) = 1 THEN Some(Append(contours, <<seg>>)) ELSE None)
        ELSE IF Len(pts) # (IF seg.segmentType = "l" THEN 1 ELSE 3) THEN None
        ELSE IF last = 0 THEN None
        ELSE Some([contours EXCEPT ![last] = Append(@, seg)])

\* The cursor after a Spiro section (lines 238-239): one more than the cursor
\* _getSection returns
spiroSkip(cursor) == cursor + 1

\* The loop of _parseSplineSet (lines 232-255) from the cursor at, which counts
\* from 0: the contours, None when Python raises
RECURSIVE splineSetFrom(_, _, _)
splineSetFrom(data, at, contours) ==
    IF at >= Len(data) THEN Some(contours)
    ELSE LET ln == data[at + 1]
         IN IF ln = "Spiro"
            THEN CHOOSE out \in
                {IF spiro = None THEN None
                 ELSE splineSetFrom(data, spiroSkip(Val(spiro)[2]), contours) :
                    spiro \in {getSection(data, at + 1, "EndSpiro", None)}} : TRUE
            ELSE IF StartsWith(ln, "Named")
            THEN IF Len(SplitOn(ln, ": ")) < 2 \/ contours = <<>> THEN None
                 ELSE splineSetFrom(data, at + 1,
                        [contours EXCEPT ![Len(contours)] =
                            Append(@, [name |-> SFDReadUTF7(SplitOn(ln, ": ")[2])])])
            ELSE CHOOSE out \in
                {IF r = None THEN None ELSE splineSetFrom(data, at + 1, Val(r)) :
                    r \in {segmentLine(ln, contours)}} : TRUE

\* _parseSplineSet (lines 229-257)
parseSplineSet(data) == splineSetFrom(data, 0, <<>>)

-----------------------------------------------------------------------------
(* _parseChar: the layer records and the SplineSet sections, lines 490-502 *)

LAYER_KEYWORDS == <<"Back", "Fore", "Layer">>

\* A glyph of a layer as layer.newGlyph makes it
NewLayerGlyph == [width |-> 0, outline |-> <<>>]

\* idx = value and int(value) or self._LAYER_KEYWORDS.index(key) (line 491):
\* None when int raises
layerIndex(key, value) ==
    LET position == (CHOOSE k \in 1..Len(LAYER_KEYWORDS) : LAYER_KEYWORDS[k] = key) - 1
    IN  IF value = None \/ Val(value) = "" THEN Some(position)
        ELSE IF IntOf(value) = None THEN None
        ELSE IF Val(IntOf(value)) # 0 THEN IntOf(value)
        ELSE Some(position)

\* The branch of a layer keyword (lines 490-498) on the locals and the layers
\* [layers, target, quad]: target stands for layerGlyph, as the index of the
\* layer that holds it, and is 1 for the glyph itself, which is in the default
\* layer (lines 459-460, 1074-1075); quad stands for quadratic.  None when
\* Python raises.
layerRecord(name, key, value, types, st) ==
    LET idx == layerIndex(key, value)
        layer == PyIndex(st.layers, Val(idx))
        at == IF Val(idx) >= 0 THEN Val(idx) ELSE Len(st.layers) + Val(idx)
        glyph == Get(st.layers[2], name)
    IN  IF idx = None THEN None
        ELSE IF layer = None THEN None
        ELSE Some([layers |->
                      IF HasKey(Val(layer), name) THEN st.layers
                      ELSE [st.layers EXCEPT ![at + 1] =
                              Put(@, name, [NewLayerGlyph EXCEPT !.width = glyph.width])],
                   target |-> at,
                   quad |-> PyIndex(types, Val(idx))])

\* The branch of SplineSet (lines 499-502) on [layers, cursor], the cursor
\* being i, which counts from 0; quad is None while the local quadratic has
\* no value.  None when Python raises.
splineSetRecord(name, data, cursor, target, quad, ls) ==
    LET splines == getSection(data, cursor, "EndSplineSet", None)
        contours == parseSplineSet(Val(splines)[1])
        glyph == Get(ls[target + 1], name)
    IN  IF splines = None THEN None
        ELSE IF contours = None THEN None
        ELSE IF quad = None THEN None
        ELSE CHOOSE out \in
            {IF ~drawn.ok THEN None
             ELSE Some([layers |-> [ls EXCEPT ![target + 1] =
                                      Put(@, name, [glyph EXCEPT !.outline = drawn.calls])],
                        cursor |-> Val(splines)[2]]) :
                drawn \in {drawContours(Val(contours), Val(quad), glyph.outline)}} : TRUE

-----------------------------------------------------------------------------
(* _parsePrivateDict, lines 100-148 *)

\* The fields of font.info the private dictionary is stored in.  A field holds
\* [isList, items]: a list of floats, or one float as the only item.
PrivateKeys ==
    [BlueValues |-> "postscriptBlueValues", OtherBlues |-> "postscriptOtherBlues",
     FamilyBlues |-> "postscriptFamilyBlues",
     FamilyOtherBlues |-> "postscriptFamilyOtherBlues",
     BlueFuzz |-> "postscriptBlueFuzz", BlueShift |-> "postscriptBlueShift",
     BlueScale |-> "postscriptBlueScale", ForceBold |-> "postscriptForceBold",
     StemSnapH |-> "postscriptStemSnapH", StemSnapV |-> "postscriptStemSnapV"]

EmptyList == [isList |-> TRUE, items |-> <<>>]

\* font.info before the section: every list empty
NewPrivateInfo == [f \in {PrivateKeys[k] : k \in DOMAIN PrivateKeys} |-> EmptyList]

\* a == b of two floats <<numerator, denominator>>
FloatEq(a, b) == a[1] * b[2] = b[1] * a[2]

\* [float(n) for n in words]: None when one of them raises
Floats(words) ==
    IF \E k \in 1..Len(words) : FloatOf(Some(words[k])) = None THEN None
    ELSE Some([k \in 1..Len(words) |-> Val(FloatOf(Some(words[k])))])

\* Lines 107-113: the key and the value of a line, None when Python raises
privateValue(ln) ==
    LET first == Find(ln, " ")
        rest == SubSeq(ln, first + 1, Len(ln))
        second == Find(rest, " ")
        key == Strip(SubSeq(ln, 1, first - 1))
        n == IntOf(Some(SubSeq(rest, 1, second - 1)))
        value == Strip(SubSeq(rest, second + 1, Len(rest)))
    IN  IF first = 0 \/ second = 0 THEN None
        ELSE IF n = None \/ Len(value) # Val(n) THEN None
        ELSE IF StartsWith(value, "[") /\ Chr(value, Len(value)) = "]"
        THEN \* value[1:-1].split(" ")
             LET items == Floats(SplitOn(SubSeq(value, 2, Len(value) - 1), " "))
             IN  IF items = None THEN None
                 ELSE Some([key |-> key, value |-> [isList |-> TRUE, items |-> Val(items)]])
        ELSE IF FloatOf(Some(value)) = None THEN None
        ELSE Some([key |-> key,
                   value |-> [isList |-> FALSE, items |-> <<Val(FloatOf(Some(value)))>>]])

\* Lines 115-138 on one line: st = [info, StdHW, StdVW, ok]
privateLine(ln, st) ==
    CHOOSE out \in {IF r = None THEN [st EXCEPT !.ok = FALSE]
                    ELSE IF Val(r).key \in DOMAIN PrivateKeys
                    THEN [st EXCEPT !.info[PrivateKeys[Val(r).key]] = Val(r).value]
                    ELSE IF Val(r).key \in {"StdHW", "StdVW"}
                    THEN \* value[0]: a float takes no index
                         IF ~Val(r).value.isList THEN [st EXCEPT !.ok = FALSE]
                         ELSE [st EXCEPT ![Val(r).key] = Some(Val(r).value.items[1])]
                    ELSE st
                    : r \in {privateValue(ln)}} : TRUE

RECURSIVE privateLines(_, _)
privateLines(data, st) ==
    IF data = <<>> \/ ~st.ok THEN st
    ELSE privateLines(Tail(data), privateLine(Head(data), st))

\* list.pop(list.index(w)): the list without the first item equal to w
PopFirst(items, w) ==
    LET at == CHOOSE k \in 1..Len(items) :
                /\ FloatEq(items[k], w)
                /\ \A j \in 1..(k - 1) : ~FloatEq(items[j], w)
    IN  SubSeq(items, 1, at - 1) \o SubSeq(items, at + 1, Len(items))

\* The same with every item equal to w taken out
PopEvery(items, w) == SelectSeq(items, LAMBDA v : ~FloatEq(v, w))

\* Lines 140-143 and 144-147: Some(the list of the field), None when Python
\* raises (the field holds a float)
promoteStem(std, field) ==
    IF std = None \/ Val(std)[1] = 0 THEN Some(field)
    ELSE IF ~field.isList THEN None
    ELSE Some([field EXCEPT !.items =
            <<Val(std)>> \o (IF \E k \in 1..Len(@) : FloatEq(@[k], Val(std))
                             THEN PopFirst(@, Val(std)) ELSE @)])

\* self._parsePrivateDict(data): [info, ok], ok FALSE when Python raises
parsePrivateDict(data, pinfo) ==
    IF data = <<>> THEN [info |-> pinfo, ok |-> FALSE]
    ELSE IF IntOf(Some(Head(data))) = None
            \/ Val(IntOf(Some(Head(data)))) # Len(data) - 1
    THEN [info |-> pinfo, ok |-> FALSE]
    ELSE CHOOSE out \in
            {IF ~st.ok THEN [info |-> st.info, ok |-> FALSE]
             ELSE CHOOSE o2 \in
                {IF h = None THEN [info |-> st.info, ok |-> FALSE]
                 ELSE CHOOSE o3 \in
                    {IF v = None
                     THEN [info |-> [st.info EXCEPT !.postscriptStemSnapH = Val(h)],
                           ok |-> FALSE]
                     ELSE [info |-> [st.info EXCEPT !.postscriptStemSnapH = Val(h),
                                                    !.postscriptStemSnapV = Val(v)],
                           ok |-> TRUE]
                     : v \in {promoteStem(st.StdVW, st.info.postscriptStemSnapV)}} : TRUE
                 : h \in {promoteStem(st.StdHW, st.info.postscriptStemSnapH)}} : TRUE
             : st \in {privateLines(Tail(data),
                        [info |-> pinfo, StdHW |-> None, StdVW |-> None, ok |-> TRUE])}}
            : TRUE

-----------------------------------------------------------------------------
(* _parseNames, lines 169-216 *)

\* self._NAMES (lines 169-193): the field of font.info of each name id, None
\* where the table has None
NAMES ==
    <<Some("copyright"), Some("familyName"), Some("styleName"),
      Some("openTypeNameUniqueID"), None, Some("openTypeNameVersion"),
      Some("postscriptFontName"), Some("trademark"),
      Some("openTypeNameManufacturer"), Some("openTypeNameDesigner"),
      Some("openTypeNameDescription"), Some("openTypeNameManufacturerURL"),
      Some("openTypeNameDesignerURL"), Some("openTypeNameLicense"),
      Some("openTypeNameLicenseURL"), None,
      Some("openTypeNamePreferredFamilyName"),
      Some("openTypeNamePreferredSubfamilyName"),
      Some("openTypeNameCompatibleFullName"), Some("openTypeNameSampleText"),
      None, Some("openTypeNameWWSFamilyName"),
      Some("openTypeNameWWSSubfamilyName")>>

NameFields == {Val(NAMES[k]) : k \in {j \in 1..Len(NAMES) : NAMES[j] # None}}

\* font.info before any LangName record: no field set, no name record list
NewNameInfo == [fields |-> [f \in NameFields |-> None], openTypeNameRecords |-> None]

\* QUOTED_RE.findall(s) (lines 20, 206): the shortest texts between two double
\* quotes, the quotes included, from left to right
RECURSIVE quotedFindAll(_)
quotedFindAll(s) ==
    LET open == Find(s, "\"")
        rest == SubSeq(s, open + 1, Len(s))
        close == Find(rest, "\"")
    IN  IF open = 0 \/ close = 0 THEN <<>>
        ELSE <<"\"" \o SubSeq(rest, 1, close)>>
             \o quotedFindAll(SubSeq(rest, close + 1, Len(rest)))

\* self._NAMES[nameId + 1]
nameSlotAfter(nameId) == PyIndex(NAMES, nameId + 1)

\* self._NAMES[nameId]: None when IndexError is raised
nameSlot(nameId) == PyIndex(NAMES, nameId)

\* Lines 209-216 for the names from the one of id nameId on: st = [info, ok]
RECURSIVE storeNames(_, _, _, _)
storeNames(names, nameId, langId, st) ==
    IF nameId >= Len(names) \/ ~st.ok THEN st
    ELSE LET name == SFDReadUTF7(names[nameId + 1])
             record == [nameID |-> nameId, languageID |-> langId, string |-> name,
                        platformID |-> 3, encodingID |-> 1]
             append == [st EXCEPT !.info.openTypeNameRecords =
                            IF @ = None \/ Val(@) = <<>> THEN Some(<<record>>)
                            ELSE Some(Append(Val(@), record))]
         IN  storeNames(names, nameId + 1, langId,
                CHOOSE out \in
                    {IF name = "" THEN st
                     ELSE IF langId # 1033 THEN append
                     ELSE IF slot = None THEN [st EXCEPT !.ok = FALSE]
                     ELSE IF Val(slot) # None
                     THEN [st EXCEPT !.info.fields[Val(Val(slot))] = Some(name)]
                     ELSE append
                     : slot \in {nameSlot(nameId)}} : TRUE)

\* self._parseNames(data): [info, ok], ok FALSE when Python raises
parseNames(data, ninfo) ==
    LET space == Find(data, " ")
        langId == IntOf(Some(SubSeq(data, 1, space - 1)))
    IN  IF space = 0 THEN [info |-> ninfo, ok |-> TRUE]
        ELSE IF langId = None THEN [info |-> ninfo, ok |-> FALSE]
        ELSE storeNames(quotedFindAll(SubSeq(data, space + 1, Len(data))), 0,
                        Val(langId), [info |-> ninfo, ok |-> TRUE])

-----------------------------------------------------------------------------
(* parse(): the layers of the font, lines 1065-1078 and 1209-1215 *)

\* An entry of self._layers: None, the name a Layer record gave, or the layer
\* of the font made for it
NoLayer == [kind |-> "none", name |-> ""]
LayerName(name) == [kind |-> "str", name |-> name]
LayerObject(name) == [kind |-> "layer", name |-> name]

\* font.layers.defaultLayer (line 1075)
DefaultLayer == LayerObject("public.default")

\* self._layers.count(name) (line 1212): a layer of the font equals no name
countName(entries, name) ==
    Cardinality({k \in 1..Len(entries) : entries[k] = LayerName(name)})

\* The name kept whatever the other layers are called
layerNameAsIs(entries, idx, name) == name

\* Lines 1212-1214: the name handed to font.newLayer for the entry of index idx
layerNameFor(entries, idx, name) ==
    IF idx \notin {0, 1} /\ countName(entries, name) # 1
    THEN name \o "_" \o IntToStr(idx) ELSE name

\* One pass of the loop of lines 1209-1215: st = [layers, idx, created], created
\* the names handed to font.newLayer so far
newLayerStep(st) ==
    LET entry == st.layers[st.idx + 1]
        name == layerNameFor(st.layers, st.idx, entry.name)
    IN  IF entry.kind # "str" THEN [st EXCEPT !.idx = @ + 1]
        ELSE [layers |-> [st.layers EXCEPT ![st.idx + 1] = LayerObject(name)],
              idx |-> st.idx + 1,
              created |-> Append(st.created, name)]

-----------------------------------------------------------------------------
(* The parts of the state a specification does not use *)

ParseIdle ==
    /\ line = "" /\ i = 0 /\ status = "idle" /\ isdir = FALSE /\ info = NewInfo
    /\ offsetMetrics = <<>> /\ charData = None /\ scanInfo = NewInfo
    /\ fontBounds = [yMin |-> 0, yMax |-> 0]
FeaIdle ==
    /\ lookupRecords = <<>> /\ gsubLookups = EmptyDict /\ gposLookups = EmptyDict
    /\ lookupInfo = EmptyDict /\ sanitizedLookupNames = EmptyDict
    /\ glyphPosSub = EmptyDict /\ glyphAnchors = EmptyDict
    /\ anchorClasses = EmptyDict /\ ligatureCarets = EmptyDict /\ feaText = None
    /\ wpc = "idle"
CharIdle ==
    /\ files = <<>> /\ enumOrder = <<>> /\ cpc = "idle"
    /\ charLines = <<>> /\ chi = 0 /\ ci = 0
    /\ fontGlyphs = EmptyDict /\ glyphOrder = <<>> /\ glyphOrderMap = EmptyDict
    /\ glyphKerns = EmptyDict /\ kerning = EmptyDict
DrawIdle ==
    /\ contour = <<>> /\ quadratic = FALSE /\ si = 0 /\ ufoContour = <<>>
    /\ emitted = <<>> /\ forceOpen = FALSE /\ pen = <<>> /\ dpc = "idle"
AnchorIdle == use_ufo_anchors = FALSE /\ anchorLog = <<>> /\ apc = "idle"
UnitIdle == args = <<>> /\ result = None /\ upc = "idle"
LayerIdle ==
    /\ layers = <<>> /\ layerType = <<>> /\ charSection = <<>> /\ sci = 0
    /\ recAt = 0 /\ layerGlyph = 1 /\ glyphQuadratic = None /\ encOrder = None
    /\ lpc = "idle"
OtherIdle == AnchorIdle /\ UnitIdle /\ LayerIdle

-----------------------------------------------------------------------------
(* SpecParse: SFDParser(path, font).parse() on a new font, up to the fixup *)

InitParse ==
    /\ line = "" /\ i = 0 /\ status = "scan"
    /\ isdir \in BOOLEAN
    /\ info = NewInfo /\ offsetMetrics = <<>> /\ charData = None
    /\ scanInfo = NewInfo /\ fontBounds = [yMin |-> 0, yMax |-> 0]
    /\ FeaIdle /\ CharIdle /\ DrawIdle /\ OtherIdle

NextParse ==
    \/ \E l \in HeaderLines \cup BodyLines :
        /\ (i = 0) = (l \in HeaderLines)
        /\ ScanLine(l)
    \/ \E n \in 0..1, found \in BOOLEAN : ScanBeginChars(n, found)
    \/ EndOfInput
    \/ \E b \in BoundsChoices : PostScan(b)
    \/ FinishParse

SpecParse == InitParse /\ [][NextParse]_vars

\* SpecMetrics: the same parse, fed the metric records.
NextMetrics ==
    \/ \E l \in {"SplineFontDB: 3.0"} \cup MetricLines :
        /\ (i = 0) = (l = "SplineFontDB: 3.0")
        /\ ScanLine(l)
    \/ \E n \in 0..1, found \in BOOLEAN : ScanBeginChars(n, found)
    \/ EndOfInput
    \/ \E b \in BoundsChoices : PostScan(b)
    \/ FinishParse

SpecMetrics == InitParse /\ [][NextMetrics]_vars

-----------------------------------------------------------------------------
(* SpecWrite: the two _writeGSUBGPOS calls of parse() (lines 1248-1249), on the
   lookups, rule fragments and anchor classes a file can leave behind *)

MaxWriteLookups == 2
MaxLive == 2

Langsys(script, langs) == [script |-> script, langs |-> langs]

\* Lookup records.  "sing" and "sing-" sanitize to the same name, "liga" names
\* a lookup of each table, "empty" has the subtable named "", "ctx" is of a kind
\* _writeGSUBGPOS has no statement for.
WriteRecords ==
    {[kind |-> 1, flag |-> 0, name |-> "sing", subtables |-> <<"s1">>,
      features |-> <<[tag |-> "smcp", scripts |-> <<Langsys("latn", <<"dflt", "TRK ">>)>>]>>],
     [kind |-> 1, flag |-> 0, name |-> "sing-", subtables |-> <<"s2">>,
      features |-> <<[tag |-> "smcp", scripts |-> <<Langsys("DFLT", <<"dflt">>)>>]>>],
     [kind |-> 4, flag |-> 8, name |-> "liga", subtables |-> <<"l1", "l2">>,
      features |-> <<[tag |-> "liga", scripts |-> <<Langsys("DFLT", <<"dflt">>),
                                                    Langsys("latn", <<"dflt">>)>>]>>],
     [kind |-> 1, flag |-> 0, name |-> "empty", subtables |-> <<"">>,
      features |-> <<[tag |-> "liga", scripts |-> <<Langsys("DFLT", <<"dflt">>)>>]>>],
     [kind |-> 5, flag |-> 0, name |-> "ctx", subtables |-> <<"s1">>,
      features |-> <<>>],
     [kind |-> 258, flag |-> 0, name |-> "kern", subtables |-> <<"k1">>,
      features |-> <<[tag |-> "kern", scripts |-> <<Langsys("latn", <<"dflt">>)>>]>>],
     [kind |-> 257, flag |-> 0, name |-> "liga", subtables |-> <<"p1">>,
      features |-> <<[tag |-> "kern", scripts |-> <<Langsys("DFLT", <<"dflt">>)>>]>>],
     [kind |-> 260, flag |-> 1, name |-> "mark", subtables |-> <<"m1">>,
      features |-> <<[tag |-> "mark", scripts |-> <<Langsys("DFLT", <<"dflt">>)>>]>>]}

Word(w) == [g |-> w]
Num(n) == [n |-> n]

\* The rule fragments of the glyphs, as _parsePosSub files them (lines 417-441):
\* <<glyph, subtable, key, possub>>, in the order of the glyphs.
Fragments ==
    <<<<"A", "s1", "Substitution", <<Word("a.sc")>>>>,
      <<"A", "k1", "PairPos", <<Word("V"), Num(0), Num(0), Num(-40), Num(0),
                                Num(0), Num(0), Num(0), Num(0)>>>>,
      <<"A", "p1", "Position", <<Num(0), Num(0), Num(50), Num(0)>>>>,
      <<"B", "s2", "Substitution", <<Word("b.sc")>>>>,
      <<"B", "", "Substitution", <<Word("b.alt")>>>>,
      <<"fi", "l1", "Ligature", <<Word("f"), Word("i")>>>>,
      <<"ffi", "l1", "Ligature", <<Word("f"), Word("f"), Word("i")>>>>>>

\* _parsePosSub for a fragment whose key is one of the six it files
FilePosSub(gps, frag) ==
    LET entry == IF HasKey(gps, frag[1]) THEN Get(gps, frag[1]) ELSE EmptyDict
        list == IF HasKey(entry, frag[2]) THEN Get(entry, frag[2]) ELSE <<>>
    IN  Put(gps, frag[1],
            Put(entry, frag[2], Append(list, [key |-> frag[3], possub |-> frag[4]])))

RECURSIVE FileAll(_, _)
FileAll(gps, frags) ==
    IF frags = <<>> THEN gps ELSE FileAll(FilePosSub(gps, Head(frags)), Tail(frags))

\* The anchors of the glyphs, as _parseAnchorPoint files them (lines 411-415)
MarkAnchors ==
    Put(Put(EmptyDict, "A",
            Put(EmptyDict, "top", Put(EmptyDict, "basechar", <<300, 700, 0>>))),
        "acute",
        Put(EmptyDict, "top", Put(EmptyDict, "mark", <<0, -50, 0>>)))

\* A font holding the glyphs named, in their order, each with the glyph class
\* its GlyphClass record set (lines 459, 483-484)
FontOf(classes) ==
    [keys |-> [k \in 1..Len(classes) |-> classes[k][1]],
     map |-> [k \in 1..Len(classes) |->
                [NewGlyph EXCEPT !.glyphclass = classes[k][2]]]]

\* The glyphs of the fonts written: without GlyphClass records, and with them
WriteClasses ==
    {<<<<"A", None>>, <<"B", None>>, <<"V", None>>, <<"fi", None>>,
       <<"ffi", None>>, <<"acute", None>>>>,
     <<<<".notdef", None>>, <<"A", Some("baseglyph")>>, <<"B", None>>,
       <<"V", Some("noclass")>>, <<"fi", Some("baseligature")>>,
       <<"ffi", None>>, <<"acute", Some("mark")>>>>}

InitWrite ==
    /\ \E n \in 0..MaxWriteLookups : lookupRecords \in [1..n -> WriteRecords]
    /\ LET st == Val(parseLookups(lookupRecords,
                        [gsub |-> EmptyDict, gpos |-> EmptyDict, info |-> EmptyDict]))
       IN /\ gsubLookups = st.gsub
          /\ gposLookups = st.gpos
          /\ lookupInfo = st.info
    /\ sanitizedLookupNames = EmptyDict
    /\ \E S \in SUBSET (1..Len(Fragments)) :
        /\ Cardinality(S) <= MaxLive
        /\ glyphPosSub =
            FileAll(EmptyDict,
                    SelectSeq(Fragments,
                              LAMBDA f : \E k \in S : Fragments[k] = f))
    \* the font with anchors is the one with GlyphClass records and ligature
    \* carets
    /\ \E marks \in BOOLEAN :
        /\ anchorClasses = IF marks THEN Put(EmptyDict, "m1", <<"top">>) ELSE EmptyDict
        /\ glyphAnchors = IF marks THEN MarkAnchors ELSE EmptyDict
        /\ \E classes \in {c \in WriteClasses : (c[1][1] = ".notdef") = marks} :
            /\ glyphOrder = [k \in 1..Len(classes) |-> classes[k][1]]
            /\ fontGlyphs = FontOf(classes)
        /\ ligatureCarets = IF marks THEN Put(EmptyDict, "fi", <<250, 500>>)
                            ELSE EmptyDict
    /\ feaText = None
    /\ wpc = "gsub"
    /\ files = <<>> /\ enumOrder = <<>>
    /\ cpc = "idle" /\ charLines = <<>> /\ chi = 0 /\ ci = 0
    /\ glyphOrderMap = EmptyDict
    /\ glyphKerns = EmptyDict /\ kerning = EmptyDict
    /\ ParseIdle /\ DrawIdle /\ OtherIdle

\* self._writeGSUBGPOS(isgpos) as parse() calls it
WriteTable(isgpos) ==
    /\ wpc = (IF isgpos THEN "gpos" ELSE "gsub")
    /\ \E r \in {writeGSUBGPOS(isgpos,
                    [names |-> sanitizedLookupNames, gps |-> glyphPosSub,
                     text |-> feaText],
                    [gsub |-> gsubLookups, gpos |-> gposLookups,
                     linfos |-> lookupInfo, acs |-> anchorClasses,
                     gas |-> glyphAnchors, order |-> glyphOrder])} :
          IF r = None
          THEN /\ wpc' = "error"
               /\ UNCHANGED <<sanitizedLookupNames, glyphPosSub, feaText>>
          ELSE /\ wpc' = (IF isgpos THEN "gdef" ELSE "gpos")
               /\ sanitizedLookupNames' = Val(r).names
               /\ glyphPosSub' = Val(r).gps
               /\ feaText' = Val(r).text
    /\ UNCHANGED <<lookupRecords, gsubLookups, gposLookups, lookupInfo,
                   glyphAnchors, anchorClasses, ligatureCarets>>
    /\ UNCHANGED <<parseVars, charVars, drawVars, otherVars>>

\* self._writeGDEF() as parse() calls it (line 1250)
WriteGDEF ==
    /\ wpc = "gdef"
    /\ \E r \in {writeGDEF(glyphOrder, fontGlyphs, glyphPosSub, ligatureCarets,
                           feaText)} :
          IF r = None
          THEN /\ wpc' = "error" /\ UNCHANGED feaText
          ELSE /\ wpc' = "done" /\ feaText' = Val(r)
    /\ UNCHANGED <<lookupRecords, gsubLookups, gposLookups, lookupInfo,
                   sanitizedLookupNames, glyphPosSub, glyphAnchors, anchorClasses,
                   ligatureCarets>>
    /\ UNCHANGED <<parseVars, charVars, drawVars, otherVars>>

NextWrite ==
    \/ \E isgpos \in BOOLEAN : WriteTable(isgpos)
    \/ WriteGDEF

SpecWrite == InitWrite /\ [][NextWrite]_vars

\* The text the pass of one table appended: the GPOS pass starts at its
\* "# GPOS " line, the GSUB pass wrote what precedes it.
TextOf(isgpos) ==
    IF feaText = None THEN ""
    ELSE LET text == Val(feaText)
             n == Find(text, "# GPOS ")
         IN IF isgpos
            THEN (IF n = 0 THEN "" ELSE SubSeq(text, n, Len(text)))
            ELSE (IF n = 0 THEN text ELSE SubSeq(text, 1, n - 1))

\* No glyph has a rule fragment filed under the subtable, and the subtable is
\* no anchor-class subtable.
DeadSubtable(sub) ==
    /\ \A g \in Range(glyphPosSub.keys) : sub \notin Range(Get(glyphPosSub, g).keys)
    /\ sub \notin Range(anchorClasses.keys)

PassDone(isgpos) == IF isgpos THEN wpc = "gdef" ELSE wpc \in {"gpos", "gdef"}

\* C3: once the pass of a table is done, a lookup of the table none of whose
\* subtables survives has no "lookup <name> {" block and no "lookup <name>;"
\* reference in the text the pass appended.
C3_PrunedLookupAbsent ==
    \A isgpos \in BOOLEAN :
        PassDone(isgpos) =>
            LET table == IF isgpos THEN gposLookups ELSE gsubLookups
            IN \A lookup \in Range(table.keys) :
                (\A sub \in Range(Get(table, lookup)) : DeadSubtable(sub)) =>
                    LET name == Get(sanitizedLookupNames, lookup)
                    IN /\ ~Contains(TextOf(isgpos), "lookup " \o name \o " {")
                       /\ ~Contains(TextOf(isgpos), "lookup " \o name \o ";")

\* A GSUB pass that kept "sing" and pruned "liga".
C3_Witness ==
    /\ wpc = "gpos"
    /\ HasKey(gsubLookups, "liga")
    /\ \A sub \in Range(Get(gsubLookups, "liga")) : DeadSubtable(sub)
    /\ Contains(TextOf(FALSE), "lookup sing {")
    /\ Contains(TextOf(FALSE), "      lookup sing;")

\* Number of places of text at which sub occurs
Occurrences(text, sub) ==
    Cardinality({n \in 1..(Len(text) - Len(sub) + 1) :
                    SubSeq(text, n, n + Len(sub) - 1) = sub})

\* Some lookup of the table survives pruning (lines 882-885): one of its
\* subtables is kept and has a name any() counts as true
Survives(table) ==
    \E lookup \in Range(table.keys) :
        \E sub \in Range(Get(table, lookup)) : sub # "" /\ ~DeadSubtable(sub)

\* The shape of the feature text of a font whose text was None, once parse()
\* has written the three tables
OrderedText(text) ==
    LET gsubAt == Find(text, "# GSUB ")
        gposAt == Find(text, "# GPOS ")
        gdefAt == Find(text, "#Mark attachment classes")
    IN  /\ Chr(text, 1) = "\n" /\ Chr(text, 2) = "#"
        /\ (gsubAt # 0) = Survives(gsubLookups)
        /\ (gposAt # 0) = Survives(gposLookups)
        /\ gsubAt # 0 => gsubAt = 2
        /\ gposAt # 0 => gposAt > gsubAt
        /\ gposAt # 0 /\ gsubAt = 0 => gposAt = 2
        /\ gdefAt > gsubAt /\ gdefAt > gposAt
        /\ gsubAt = 0 /\ gposAt = 0 => gdefAt = 2
        /\ Occurrences(text, "# GSUB ") <= 1
        /\ Occurrences(text, "# GPOS ") <= 1
        /\ Occurrences(text, "#Mark attachment classes") = 1
        /\ Occurrences(text, "table GDEF {") = 1
        /\ Occurrences(text, "} GDEF;") = 1
        /\ SubSeq(text, Len(text) - 8, Len(text)) = "} GDEF;\n\n"

\* C11: on a font whose feature text starts as None, the text parse() leaves is
\* one newline, then the GSUB text if a GSUB lookup survives pruning, then the
\* GPOS text if a GPOS lookup survives, then the GDEF block, written once; no
\* GDEF text is there before the GDEF pass, no GPOS text before the GPOS pass,
\* and a pass only appends to the text it found.
C11_OutputOrdering ==
    /\ [](wpc = "done" => feaText # None /\ OrderedText(Val(feaText)))
    /\ [](wpc \in {"gsub", "gpos", "gdef"} /\ feaText # None =>
            /\ ~Contains(Val(feaText), "table GDEF {")
            /\ Chr(Val(feaText), 1) = "\n" /\ Chr(Val(feaText), 2) = "#")
    /\ [](wpc \in {"gsub", "gpos"} /\ feaText # None =>
            ~Contains(Val(feaText), "# GPOS "))
    /\ [](wpc = "gsub" => feaText = None)
    /\ [][feaText # None => feaText' # None /\ StartsWith(Val(feaText'), Val(feaText))]_vars

\* C11's case: the three passes are done and each of them wrote text.
C11_Witness ==
    /\ wpc = "done"
    /\ Survives(gsubLookups) /\ Survives(gposLookups)
    /\ Find(Val(feaText), "# GSUB ") = 2
    /\ Find(Val(feaText), "# GPOS ") > 2

\* C11's other case: neither table wrote text, the GDEF pass wrote the newline.
C11_WitnessOnlyGDEF ==
    /\ wpc = "done"
    /\ gsubLookups.keys # <<>> /\ gposLookups.keys # <<>>
    /\ StartsWith(Val(feaText), "\n#Mark attachment classes")

-----------------------------------------------------------------------------
(* SpecGDEF: _writeGDEF on a font whose glyphs carry any glyph class or none,
   with and without rule fragments. *)

GdefGlyphs == <<".notdef", "A", "fi">>

\* The rule fragments of the glyphs: none, a ligature of fi, a substitution
\* of A and a ligature of fi, a substitution of fi
GdefPosSub ==
    {EmptyDict,
     FileAll(EmptyDict, <<<<"fi", "l1", "Ligature", <<Word("f"), Word("i")>>>>>>),
     FileAll(EmptyDict, <<<<"A", "s1", "Substitution", <<Word("a.sc")>>>>,
                          <<"fi", "s1", "Substitution", <<Word("f")>>>>,
                          <<"fi", "l1", "Ligature", <<Word("f"), Word("i")>>>>>>),
     FileAll(EmptyDict, <<<<"fi", "s1", "Substitution", <<Word("f")>>>>>>)}

InitGDEF ==
    /\ \E cls \in [1..Len(GdefGlyphs) -> {None} \cup {Some(c) : c \in Range(GLYPH_CLASSES)}] :
        fontGlyphs = FontOf([k \in 1..Len(GdefGlyphs) |-> <<GdefGlyphs[k], cls[k]>>])
    /\ glyphOrder = GdefGlyphs
    /\ glyphPosSub \in GdefPosSub
    /\ ligatureCarets = EmptyDict /\ feaText = None /\ wpc = "gdef"
    /\ lookupRecords = <<>> /\ gsubLookups = EmptyDict /\ gposLookups = EmptyDict
    /\ lookupInfo = EmptyDict /\ sanitizedLookupNames = EmptyDict
    /\ glyphAnchors = EmptyDict /\ anchorClasses = EmptyDict
    /\ files = <<>> /\ enumOrder = <<>> /\ cpc = "idle"
    /\ charLines = <<>> /\ chi = 0 /\ ci = 0 /\ glyphOrderMap = EmptyDict
    /\ glyphKerns = EmptyDict /\ kerning = EmptyDict
    /\ ParseIdle /\ DrawIdle /\ OtherIdle

NextGDEF == WriteGDEF

SpecGDEF == InitGDEF /\ [][NextGDEF]_vars

\* The glyph list the text gives the class name, "" when it defines none
ClassListOf(classname, text) ==
    LET n == Find(text, classname \o " = [")
        rest == SubSeq(text, n, Len(text))
    IN  IF n = 0 THEN "" ELSE SubSeq(rest, 1, Find(rest, "];"))

InList(glyph, classname) ==
    Contains(ClassListOf(classname, Val(feaText)), "\\" \o glyph \o " ")

ListsOf(glyph) == {k \in 1..Len(GdefClassNames) : InList(glyph, GdefClassNames[k][2])}

\* The list the claim gives a glyph that is not .notdef: its position in
\* GdefClassNames, 0 for the classes automatic and noclass
ClaimedList(glyph) ==
    LET glyphclass == Get(fontGlyphs, glyph).glyphclass
        ligature == /\ HasKey(glyphPosSub, glyph)
                    /\ \E sub \in Range(Get(glyphPosSub, glyph).keys) :
                        \E f \in Range(Get(Get(glyphPosSub, glyph), sub)) :
                            f.key = "Ligature"
    IN  IF glyphclass = None THEN (IF ligature THEN 2 ELSE 1)
        ELSE IF \E k \in 1..Len(GdefClassNames) : GdefClassNames[k][1] = Val(glyphclass)
        THEN CHOOSE k \in 1..Len(GdefClassNames) : GdefClassNames[k][1] = Val(glyphclass)
        ELSE 0

OthersBucketed ==
    \A glyph \in Range(glyphOrder) \ {".notdef"} :
        ClaimedList(glyph) # 0 => ListsOf(glyph) = {ClaimedList(glyph)}

\* C13: in the text _writeGDEF wrote, .notdef is in no class list, with or
\* without a glyph class of its own; every other glyph without a glyph class is
\* in @GDEF_Ligature alone if it owns a Ligature fragment and in @GDEF_Simple
\* alone otherwise; a glyph of class baseglyph, baseligature, mark or component
\* is in the list of its class alone.
C13_GdefBucketing ==
    wpc = "done" => ListsOf(".notdef") = {} /\ OthersBucketed

\* What holds of C13: the glyphs other than .notdef are bucketed as claimed,
\* and .notdef is in no list when it has no glyph class of its own.
C13_BucketingOfOtherGlyphs ==
    wpc = "done" =>
        /\ OthersBucketed
        /\ Get(fontGlyphs, ".notdef").glyphclass = None => ListsOf(".notdef") = {}

-----------------------------------------------------------------------------
(* SpecSection: one call of _getSection on the lines of a file as
   fp.readlines() and the callers hand them over, at a cursor within the
   lines, with and without an opening value. *)

MaxSectionLines == 3

\* Lines of a file: a record, the end marker, the end marker indented, and a
\* longer key that starts with the end marker
SectionLines == {"Width: 5", "EndPrivate", " EndPrivate", "EndPrivateX"}

InitSection ==
    /\ \E n \in 0..MaxSectionLines : \E data \in [1..n -> SectionLines] :
        \E start \in 0..n, value \in {None, Some("3")} :
            args = [data |-> data, i |-> start, end |-> "EndPrivate", value |-> value]
    /\ result = None /\ upc = "call"
    /\ ParseIdle /\ FeaIdle /\ CharIdle /\ DrawIdle /\ AnchorIdle /\ LayerIdle

\* self._getSection(data, i, end, value)
GetSection ==
    /\ upc = "call"
    /\ \E r \in {getSection(args.data, args.i, args.end, args.value)} :
          IF r = None
          THEN upc' = "raised" /\ result' = None
          ELSE upc' = "returned" /\ result' = r
    /\ UNCHANGED <<args, parseVars, feaVars, charVars, drawVars, anchorVars, layerVars>>

NextSection == GetSection

SpecSection == InitSection /\ [][NextSection]_vars

\* The indices j >= start (from 0) of the lines that, stripped, start with the
\* end marker
MarkersFrom ==
    {j \in args.i..(Len(args.data) - 1) : StartsWith(Strip(args.data[j + 1]), args.end)}

FirstMarker == CHOOSE j \in MarkersFrom : \A k \in MarkersFrom : j <= k

\* C14: _getSection returns the lines data[start..j-1], after the seed when
\* there is one, and the cursor j + 1, for the smallest j >= start whose line,
\* stripped, starts with the end marker; it raises when there is no such line.
C14_SectionReader ==
    /\ upc = "returned" =>
        /\ MarkersFrom # {}
        /\ Val(result)[1] = (IF args.value = None THEN <<>> ELSE <<Val(args.value)>>)
                            \o SubSeq(args.data, args.i + 1, FirstMarker)
        /\ Val(result)[2] = FirstMarker + 1
    /\ upc = "raised" => MarkersFrom = {}

\* What holds of C14: the same with the lines taken as they are, not stripped.
C14_SectionToUnstrippedMarker ==
    LET markers == {j \in args.i..(Len(args.data) - 1) :
                        StartsWith(args.data[j + 1], args.end)}
        first == CHOOSE j \in markers : \A k \in markers : j <= k
    IN  /\ upc = "returned" =>
            /\ markers # {}
            /\ Val(result)[1] = (IF args.value = None THEN <<>> ELSE <<Val(args.value)>>)
                                \o SubSeq(args.data, args.i + 1, first)
            /\ Val(result)[2] = first + 1
        /\ upc = "raised" => markers = {}

-----------------------------------------------------------------------------
(* SpecSpline: one call of _parseSplineSet on the lines of a SplineSet
   section, with or without a Spiro sub-section among them. *)

MaxSplineLines == 2

\* Lines of geometry, stripped as _parseChars leaves them, and a contour name
GeometryLines == {"0 0 m 1", "100 0 l 1", "0 0 100 0 100 100 c 0", "Named: \"a\""}

\* The lines of a Spiro sub-section, between its markers
SpiroBodies == {<<>>, <<"0 0 v", "100 0 z">>}

InitSpline ==
    /\ \E n \in 0..MaxSplineLines, k \in 0..MaxSplineLines :
        \E before \in [1..n -> GeometryLines], after \in [1..k -> GeometryLines] :
            \/ args = [data |-> before \o after, spiro |-> <<>>]
            \/ \E body \in SpiroBodies :
                args = [data |-> before \o <<"Spiro">> \o body \o <<"EndSpiro">> \o after,
                        spiro |-> <<Len(before) + 1, Len(before) + Len(body) + 2>>]
    /\ result = None /\ upc = "call"
    /\ ParseIdle /\ FeaIdle /\ CharIdle /\ DrawIdle /\ AnchorIdle /\ LayerIdle

\* self._parseSplineSet(data)
ParseSplineSet ==
    /\ upc = "call"
    /\ \E r \in {parseSplineSet(args.data)} :
          IF r = None
          THEN upc' = "raised" /\ result' = None
          ELSE upc' = "returned" /\ result' = r
    /\ UNCHANGED <<args, parseVars, feaVars, charVars, drawVars, anchorVars, layerVars>>

NextSpline == ParseSplineSet

SpecSpline == InitSpline /\ [][NextSpline]_vars

\* The lines without those from Spiro through EndSpiro
WithoutSpiro ==
    IF args.spiro = <<>> THEN args.data
    ELSE SubSeq(args.data, 1, args.spiro[1] - 1)
         \o SubSeq(args.data, args.spiro[2] + 1, Len(args.data))

\* C18: _parseSplineSet ends on lines with a Spiro sub-section as it does on
\* the lines without the sub-section, with the same contours; the line after
\* EndSpiro is parsed.
C18_SpiroConsumedExactly ==
    (upc \in {"returned", "raised"} /\ args.spiro # <<>>) =>
        \E ref \in {parseSplineSet(WithoutSpiro)} :
            /\ (ref = None) = (upc = "raised")
            /\ ref # None => Val(result) = Val(ref)

\* What holds of C18: the same for the lines from which the line after EndSpiro,
\* when there is one, is removed as well.
C18_SpiroAndNextLineDropped ==
    (upc \in {"returned", "raised"} /\ args.spiro # <<>>) =>
        \E ref \in {parseSplineSet(SubSeq(args.data, 1, args.spiro[1] - 1)
                                   \o SubSeq(args.data, args.spiro[2] + 2, Len(args.data)))} :
            /\ (ref = None) = (upc = "raised")
            /\ ref # None => Val(result) = Val(ref)

-----------------------------------------------------------------------------
(* SpecPrivate: _parsePrivateDict on the section BeginPrivate ... EndPrivate
   of a file; args holds the section, result font.info afterwards. *)

MaxPrivateLines == 3

PrivateLines ==
    {"StemSnapH 7 [80 90]", "StemSnapH 10 [80 90 80]", "StemSnapH 2 80",
     "StdHW 4 [80]", "StdHW 3 [0]",
     "StemSnapV 8 [0 70 0]", "StdVW 4 [70]", "StdVW 3 [0]",
     "BlueFuzz 1 1", "BlueValues 6 [0 10]"}

InitPrivate ==
    /\ \E n \in 0..MaxPrivateLines : \E lines \in [1..n -> PrivateLines] :
        args = <<IntToStr(n)>> \o lines
    /\ result = NewPrivateInfo
    /\ upc = "call"
    /\ ParseIdle /\ FeaIdle /\ CharIdle /\ DrawIdle /\ AnchorIdle /\ LayerIdle

ParsePrivateDict ==
    /\ upc = "call"
    /\ \E r \in {parsePrivateDict(args, result)} :
        /\ result' = r.info
        /\ upc' = (IF r.ok THEN "returned" ELSE "raised")
    /\ UNCHANGED <<args, parseVars, feaVars, charVars, drawVars, anchorVars, layerVars>>

NextPrivate == ParsePrivateDict

SpecPrivate == InitPrivate /\ [][NextPrivate]_vars

\* The values of the lines of the section that have the key, in their order
ValuesOf(key) ==
    LET lines == SelectSeq(Tail(args), LAMBDA l : Val(privateValue(l)).key = key)
    IN  [k \in 1..Len(lines) |-> Val(privateValue(lines[k])).value]

\* The section has a line of the key
HasLine(key) == ValuesOf(key) # <<>>

\* The width w of the last StdHW or StdVW line
StdWidth(key) == ValuesOf(key)[Len(ValuesOf(key))].items[1]

\* The list stored for the key StemSnapH or StemSnapV when the section is read
StoredSnap(key) ==
    IF HasLine(key) THEN ValuesOf(key)[Len(ValuesOf(key))].items
    ELSE NewPrivateInfo[PrivateKeys[key]].items

\* The list of the field is w, then the stored list without any w
Promoted(std, snap) ==
    result[PrivateKeys[snap]].items =
        <<StdWidth(std)>> \o PopEvery(StoredSnap(snap), StdWidth(std))

\* C20: after _parsePrivateDict has read a section with a line StdHW [w],
\* postscriptStemSnapH is w followed by the stored StemSnapH list without any
\* w, its other entries in their order, for every w; likewise for StdVW and
\* postscriptStemSnapV.
C20_StemPromotion ==
    upc = "returned" =>
        /\ HasLine("StdHW") => Promoted("StdHW", "StemSnapH")
        /\ HasLine("StdVW") => Promoted("StdVW", "StemSnapV")

\* The width is not zero and the stored list holds it once at most
SinglePromotion(std, snap) ==
    /\ HasLine(std)
    /\ StdWidth(std)[1] # 0
    /\ Cardinality({k \in 1..Len(StoredSnap(snap)) :
                        FloatEq(StoredSnap(snap)[k], StdWidth(std))}) <= 1

\* What holds of C20: the same for a width other than zero that the stored
\* list holds once at most.
C20_PromotionOfSingleWidth ==
    upc = "returned" =>
        /\ SinglePromotion("StdHW", "StemSnapH") => Promoted("StdHW", "StemSnapH")
        /\ SinglePromotion("StdVW", "StemSnapV") => Promoted("StdVW", "StemSnapV")

\* The case of C20_PromotionOfSingleWidth: a width taken out of the stored
\* list and put first
C20_PromotionCase ==
    /\ upc = "returned"
    /\ args = <<"2", "StemSnapH 7 [80 90]", "StdHW 4 [80]">>

-----------------------------------------------------------------------------
(* SpecPairs: the passes of parse() over lookups of which two of the GPOS table
   may list one PairPos subtable; every glyph rule of the font is filed. *)

MaxPairLookups == 3

PairRecords ==
    {[kind |-> 258, flag |-> 0, name |-> "kernA", subtables |-> <<"k1">>,
      features |-> <<[tag |-> "kern", scripts |-> <<Langsys("latn", <<"dflt">>)>>]>>],
     [kind |-> 258, flag |-> 0, name |-> "kernB", subtables |-> <<"k1">>,
      features |-> <<[tag |-> "kern", scripts |-> <<Langsys("DFLT", <<"dflt">>)>>]>>],
     [kind |-> 257, flag |-> 0, name |-> "pos", subtables |-> <<"p1">>,
      features |-> <<[tag |-> "kern", scripts |-> <<Langsys("latn", <<"dflt">>)>>]>>],
     [kind |-> 1, flag |-> 0, name |-> "sing", subtables |-> <<"s1">>,
      features |-> <<[tag |-> "smcp", scripts |-> <<Langsys("latn", <<"dflt">>)>>]>>]}

InitPairs ==
    /\ \E n \in 0..MaxPairLookups : lookupRecords \in [1..n -> PairRecords]
    /\ LET st == Val(parseLookups(lookupRecords,
                        [gsub |-> EmptyDict, gpos |-> EmptyDict, info |-> EmptyDict]))
       IN /\ gsubLookups = st.gsub
          /\ gposLookups = st.gpos
          /\ lookupInfo = st.info
    /\ sanitizedLookupNames = EmptyDict
    /\ glyphPosSub = FileAll(EmptyDict, Fragments)
    /\ anchorClasses = EmptyDict /\ glyphAnchors = EmptyDict
    /\ \E classes \in {c \in WriteClasses : c[1][1] # ".notdef"} :
        /\ glyphOrder = [k \in 1..Len(classes) |-> classes[k][1]]
        /\ fontGlyphs = FontOf(classes)
    /\ ligatureCarets = EmptyDict
    /\ feaText = None
    /\ wpc = "gsub"
    /\ files = <<>> /\ enumOrder = <<>>
    /\ cpc = "idle" /\ charLines = <<>> /\ chi = 0 /\ ci = 0
    /\ glyphOrderMap = EmptyDict
    /\ glyphKerns = EmptyDict /\ kerning = EmptyDict
    /\ ParseIdle /\ DrawIdle /\ OtherIdle

NextPairs ==
    \/ \E isgpos \in BOOLEAN : WriteTable(isgpos)
    \/ WriteGDEF

SpecPairs == InitPairs /\ [][NextPairs]_vars

\* The statements of the block of the lookup in the lines: what is between
\* its lookupflag line and its closing line
StatementsOf(lines, name) ==
    LET open == CHOOSE k \in 1..Len(lines) : lines[k] = "lookup " \o name \o " {"
        close == CHOOSE k \in 1..Len(lines) : lines[k] = "} " \o name \o ";"
    IN  SubSeq(lines, open + 2, close - 1)

\* Two lookups of the GPOS table that list the same subtables have the same
\* statements in the text
SharedSubtablesAlike ==
    LET lines == SplitOn(TextOf(TRUE), "\n")
    IN  \A a, b \in Range(gposLookups.keys) :
            /\ Get(gposLookups, a) = Get(gposLookups, b)
            /\ \E k \in 1..Len(lines) :
                    lines[k] = "lookup " \o Get(sanitizedLookupNames, a) \o " {"
            => StatementsOf(lines, Get(sanitizedLookupNames, a))
                    = StatementsOf(lines, Get(sanitizedLookupNames, b))

\* C24: the passes of _writeGSUBGPOS leave self._glyphPosSub as it was, and a
\* subtable listed by two lookups has the same statements in both blocks.
C24_FragmentsUnmodified ==
    /\ [][glyphPosSub' = glyphPosSub]_vars
    /\ [](PassDone(TRUE) => SharedSubtablesAlike)

\* The rule fragments of the map filed under other keys than PairPos
OtherThanPairPos(gps) ==
    [g \in Range(gps.keys) |->
        [sub \in Range(Get(gps, g).keys) |->
            SelectSeq(Get(Get(gps, g), sub), LAMBDA f : f.key # "PairPos")]]

\* What holds of C24: the GSUB pass leaves the map as it was, and either pass
\* leaves what it holds under other keys than PairPos.
C24_FragmentsOtherThanPairs ==
    [][/\ OtherThanPairPos(glyphPosSub') = OtherThanPairPos(glyphPosSub)
       /\ wpc = "gsub" => glyphPosSub' = glyphPosSub]_vars

-----------------------------------------------------------------------------
(* SpecLayerNames: the loop of parse() that makes the layers of the font, after
   the LayerCount and Layer records of a file; args holds self._layers as the
   records left it, result the loop's state. *)

MaxLayerCount == 4

\* The names of the Layer records
DeclaredNames == {"Back", "X", "X_2", "X_3"}

\* self._layers after the scan (lines 1065-1078): the entry of index 1 is the
\* default layer when a Layer record names it, every other entry the name of
\* its Layer record, None without a record
InitLayerNames ==
    /\ \E count \in 2..MaxLayerCount :
        \E entries \in [1..count -> {NoLayer, DefaultLayer}
                                    \cup {LayerName(n) : n \in DeclaredNames}] :
            /\ entries[2] \in {NoLayer, DefaultLayer}
            /\ \A k \in (1..count) \ {2} : entries[k] # DefaultLayer
            /\ args = entries
    /\ result = [layers |-> args, idx |-> 0, created |-> <<>>]
    /\ upc = "call"
    /\ ParseIdle /\ FeaIdle /\ CharIdle /\ DrawIdle /\ AnchorIdle /\ LayerIdle

NewLayer ==
    /\ upc = "call"
    /\ result.idx < Len(result.layers)
    /\ result' = newLayerStep(result)
    /\ UNCHANGED <<args, upc>>
    /\ UNCHANGED <<parseVars, feaVars, charVars, drawVars, anchorVars, layerVars>>

LayersMade ==
    /\ upc = "call"
    /\ result.idx >= Len(result.layers)
    /\ upc' = "returned"
    /\ UNCHANGED <<args, result>>
    /\ UNCHANGED <<parseVars, feaVars, charVars, drawVars, anchorVars, layerVars>>

NextLayerNames == NewLayer \/ LayersMade

SpecLayerNames == InitLayerNames /\ [][NextLayerNames]_vars

\* C23: once the layers are made, the names handed to font.newLayer are
\* pairwise distinct, whatever the names of the Layer records.
C23_LayerNamesUnique ==
    upc = "returned" =>
        \A a, b \in 1..Len(result.created) :
            result.created[a] = result.created[b] => a = b

\* The Layer records give no name with "_" in it, and layer 0 a name no other
\* layer has
PlainLayerNames ==
    /\ \A k \in 1..Len(args) : ~Contains(args[k].name, "_")
    /\ \A k \in 2..Len(args) : args[k].kind = "str" => args[k].name # args[1].name

\* What holds of C23: the names are distinct when no declared name has "_" in
\* it and the name of layer 0 is not the name of another layer.
C23_UniqueAmongPlainNames ==
    PlainLayerNames => C23_LayerNamesUnique

\* The case of C23_UniqueAmongPlainNames: two layers of one name were made
C23_PlainNamesCase ==
    /\ upc = "returned"
    /\ PlainLayerNames
    /\ Len(args) = 4
    /\ args[3] = LayerName("X") /\ args[4] = LayerName("X")
    /\ result.created = <<"Back", "X_2", "X">>

-----------------------------------------------------------------------------
(* SpecFeatures: the passes of parse() over lookups whose features name several
   scripts and languages; every glyph rule of the font is filed. *)

MaxFeatureLookups == 2

\* Lookup records: the languages of a script are declared in any order, one
\* language tag starts with a character that sorts before the digits, one
\* lookup has no subtable in use, one is of the GPOS table.
FeatureRecords ==
    {[kind |-> 1, flag |-> 0, name |-> "one", subtables |-> <<"s1">>,
      features |-> <<[tag |-> "smcp", scripts |-> <<Langsys("latn", <<"TRK ", "dflt">>)>>]>>],
     [kind |-> 1, flag |-> 0, name |-> "two", subtables |-> <<"s2">>,
      features |-> <<[tag |-> "smcp", scripts |-> <<Langsys("latn", <<"dflt", "DEU ">>),
                                                    Langsys("DFLT", <<"dflt">>)>>]>>],
     [kind |-> 1, flag |-> 0, name |-> "tre", subtables |-> <<"s1">>,
      features |-> <<[tag |-> "liga", scripts |-> <<Langsys("latn", <<"dflt", "*ab ">>)>>]>>],
     [kind |-> 1, flag |-> 0, name |-> "dead", subtables |-> <<"zz">>,
      features |-> <<[tag |-> "smcp", scripts |-> <<Langsys("latn", <<"dflt", "AZE ">>)>>]>>],
     [kind |-> 257, flag |-> 0, name |-> "pos", subtables |-> <<"p1">>,
      features |-> <<[tag |-> "kern", scripts |-> <<Langsys("latn", <<"TRK ", "dflt">>)>>]>>]}

InitFeatures ==
    /\ \E n \in 0..MaxFeatureLookups : lookupRecords \in [1..n -> FeatureRecords]
    /\ LET st == Val(parseLookups(lookupRecords,
                        [gsub |-> EmptyDict, gpos |-> EmptyDict, info |-> EmptyDict]))
       IN /\ gsubLookups = st.gsub
          /\ gposLookups = st.gpos
          /\ lookupInfo = st.info
    /\ sanitizedLookupNames = EmptyDict
    /\ glyphPosSub = FileAll(EmptyDict, Fragments)
    /\ anchorClasses = EmptyDict /\ glyphAnchors = EmptyDict
    /\ \E classes \in {c \in WriteClasses : c[1][1] # ".notdef"} :
        /\ glyphOrder = [k \in 1..Len(classes) |-> classes[k][1]]
        /\ fontGlyphs = FontOf(classes)
    /\ ligatureCarets = EmptyDict
    /\ feaText = None
    /\ wpc = "gsub"
    /\ files = <<>> /\ enumOrder = <<>>
    /\ cpc = "idle" /\ charLines = <<>> /\ chi = 0 /\ ci = 0
    /\ glyphOrderMap = EmptyDict
    /\ glyphKerns = EmptyDict /\ kerning = EmptyDict
    /\ ParseIdle /\ DrawIdle /\ OtherIdle

NextFeatures ==
    \/ \E isgpos \in BOOLEAN : WriteTable(isgpos)
    \/ WriteGDEF

SpecFeatures == InitFeatures /\ [][NextFeatures]_vars

\* The lines of the text of a pass, and what a line is
PassLines(isgpos) == SplitOn(TextOf(isgpos), "\n")
IsScriptLine(l) == StartsWith(l, " script ")
IsLanguageLine(l) == StartsWith(l, "     language ")
IsLookupLine(l) == StartsWith(l, "      lookup ")

\* The tags and names the lines hold
ScriptOf(l) == SubSeq(l, 9, Len(l) - 1)
LanguageOf(l) ==
    IF Len(l) >= 14 /\ SubSeq(l, Len(l) - 13, Len(l)) = " exclude_dflt;"
    THEN SubSeq(l, 15, Len(l) - 14) ELSE SubSeq(l, 15, Len(l) - 2)
LookupOf(l) == SubSeq(l, 14, Len(l) - 1)

\* The tag of the feature block the line of index k is in
FeatureAt(lines, k) ==
    LET at == CHOOSE j \in 1..k :
                /\ StartsWith(lines[j], "feature ")
                /\ \A m \in (j + 1)..k : ~StartsWith(lines[m], "feature ")
    IN  SubSeq(lines[at], 9, Len(lines[at]) - 2)

\* The indices of the lines after the one of index k for which Is holds, up to
\* the first line for which neither Is nor Skip holds
RunAfter(lines, k, Is(_), Skip(_)) ==
    {j \in (k + 1)..Len(lines) :
        /\ Is(lines[j])
        /\ \A m \in (k + 1)..j : Is(lines[m]) \/ Skip(lines[m])}

\* dflt is first when present and the other tags ascend
DfltThenAscending(tags) ==
    /\ \A j \in 2..Len(tags) : tags[j] # "dflt"
    /\ \A a, b \in 1..Len(tags) :
        a < b /\ tags[a] # "dflt" => StrLess(tags[a], tags[b])

\* The lookup is kept by the pass: one of its subtables is in use
KeptLookup(table, lookup) ==
    \E sub \in Range(Get(table, lookup)) : sub # "" /\ ~DeadSubtable(sub)

\* The lookup declares the feature for the script and the language
Declares(lookup, feature, script, language) ==
    \E fl \in Range(Get(lookupInfo, lookup).features) :
        /\ fl.tag = feature
        /\ \E sl \in Range(fl.scripts) : sl.script = script /\ language \in Range(sl.langs)

\* The names of the kept lookups that declare them, in the order of the file
DeclaredLookups(table, feature, script, language) ==
    LET kept == SelectSeq(table.keys,
                    LAMBDA lookup : /\ KeptLookup(table, lookup)
                                    /\ Declares(lookup, feature, script, language))
    IN  [k \in 1..Len(kept) |-> Get(sanitizedLookupNames, kept[k])]

\* The languages of the script of line k are ordered
OrderedLanguages(lines, k) ==
    LET at == SelectSeq([j \in 1..Len(lines) |-> j],
                        LAMBDA j : j \in RunAfter(lines, k, IsLanguageLine, IsLookupLine))
    IN  DfltThenAscending([j \in 1..Len(at) |-> LanguageOf(lines[at[j]])])

\* The references under each language of the script of line k are the lookups
\* that declare it
DeclaredReferences(table, lines, k) ==
    \A a \in RunAfter(lines, k, IsLanguageLine, IsLookupLine) :
        LET at == SelectSeq([j \in 1..Len(lines) |-> j],
                            LAMBDA j : j \in RunAfter(lines, a, IsLookupLine, IsLookupLine))
        IN  [j \in 1..Len(at) |-> LookupOf(lines[at[j]])] =
                DeclaredLookups(table, FeatureAt(lines, k), ScriptOf(lines[k]),
                                LanguageOf(lines[a]))

\* C22: in the text of either pass, under every script statement of every
\* feature block the language dflt, when there, comes before every other
\* language and the others come in ascending order of their tags; under each
\* language the lookup statements name the kept lookups that declare the
\* feature, script and language, in the order of the file.
C22_FeatureBlockOrdering ==
    \A isgpos \in BOOLEAN :
        PassDone(isgpos) =>
            \E lines \in {PassLines(isgpos)} :
                \A k \in {j \in 1..Len(lines) : IsScriptLine(lines[j])} :
                    /\ OrderedLanguages(lines, k)
                    /\ DeclaredReferences(IF isgpos THEN gposLookups ELSE gsubLookups,
                                          lines, k)

\* No language tag of a lookup sorts before "0"
TagsFromDigitsOn ==
    \A lookup \in Range(lookupInfo.keys) :
        \A fl \in Range(Get(lookupInfo, lookup).features) :
            \A sl \in Range(fl.scripts) :
                \A language \in Range(sl.langs) : ~StrLess(language, "0")

\* What holds of C22: the same in files whose language tags do not sort before
\* "0", the key dflt is sorted by.
C22_OrderingOfTagsFromDigitsOn ==
    TagsFromDigitsOn => C22_FeatureBlockOrdering

\* The case of C22_OrderingOfTagsFromDigitsOn: a script with dflt declared
\* after another language by one lookup and before a third by another.
C22_OrderingCase ==
    /\ wpc = "done"
    /\ TagsFromDigitsOn
    /\ Contains(Val(feaText),
        "     language dflt ;\n      lookup one;\n      lookup two;\n     language DEU  exclude_dflt;\n      lookup two;\n     language TRK  exclude_dflt;\n      lookup one;")

-----------------------------------------------------------------------------
(* SpecNames: _parseNames on the LangName records of a file, one call per
   record; args holds the records read so far, result font.info. *)

MaxLangNames == 3

LangNameData ==
    {"1033 \"Cop\" \"Fam\"", "1033 \"\" \"\" \"\" \"\" \"Full\"",
     "1036 \"Cop\" \"\" \"Fam\"", "1036 \"\" \"\" \"\" \"\" \"Complet\"",
     "1033 \"Cop2\"", "1033", "en \"Cop\""}

InitNames ==
    /\ args = <<>>
    /\ result = NewNameInfo
    /\ upc = "call"
    /\ ParseIdle /\ FeaIdle /\ CharIdle /\ DrawIdle /\ AnchorIdle /\ LayerIdle

\* self._parseNames(value) as the scan loop calls it (line 1177)
ParseNames(data) ==
    /\ upc = "call"
    /\ Len(args) < MaxLangNames
    /\ args' = Append(args, data)
    /\ \E r \in {parseNames(data, result)} :
        /\ result' = r.info
        /\ upc' = (IF r.ok THEN "call" ELSE "raised")
    /\ UNCHANGED <<parseVars, feaVars, charVars, drawVars, anchorVars, layerVars>>

NextNames == \E data \in LangNameData : ParseNames(data)

SpecNames == InitNames /\ [][NextNames]_vars

\* The record read by the step, its language id and its strings
StepData == args'[Len(args')]
StepLang == Val(IntOf(Some(SplitOn(StepData, " ")[1])))
StepNames ==
    LET found == quotedFindAll(StepData)
    IN  [k \in 1..Len(found) |-> SFDReadUTF7(found[k])]

\* A record was read and _parseNames returned
NamesRead == Len(args') = Len(args) + 1 /\ upc' = "call"

\* The list of name records, empty while there is none
RecordsOf(ninfo) ==
    IF ninfo.openTypeNameRecords = None THEN <<>> ELSE Val(ninfo.openTypeNameRecords)

\* The name records of the strings at the positions of the set, in their order
NameRecordsAt(positions) ==
    LET at == SelectSeq([k \in 1..Len(StepNames) |-> k],
                        LAMBDA k : k \in positions /\ StepNames[k] # "")
    IN  [k \in 1..Len(at) |->
            [nameID |-> at[k] - 1, languageID |-> StepLang, string |-> StepNames[at[k]],
             platformID |-> 3, encodingID |-> 1]]

\* The positions of the strings whose slot of the table names a field
TypedPositions == {k \in 1..Len(StepNames) : k <= Len(NAMES) /\ NAMES[k] # None}

\* The fields hold the strings of the positions of the set and are as they
\* were otherwise
FieldsSetAt(positions) ==
    \A f \in NameFields :
        result'.fields[f] =
            IF \E k \in positions : StepNames[k] # "" /\ NAMES[k] = Some(f)
            THEN Some(StepNames[CHOOSE k \in positions :
                                    StepNames[k] # "" /\ NAMES[k] = Some(f)])
            ELSE result.fields[f]

\* C21 as stated: a record of language 1033 sets the field of the slot of each
\* of its strings that is not empty, for every slot of the table, and appends
\* nothing to openTypeNameRecords; a record of another language appends one
\* name record (nameID p, the language, the string, platformID 3, encodingID 1)
\* for each of its strings that is not empty and sets no field.
C21_NameRecords ==
    [][NamesRead =>
        IF StepLang = 1033
        THEN /\ RecordsOf(result') = RecordsOf(result)
             /\ FieldsSetAt(TypedPositions)
        ELSE /\ RecordsOf(result') = RecordsOf(result) \o NameRecordsAt(1..Len(StepNames))
             /\ FieldsSetAt({})]_vars

\* C21 amended: a record of language 1033 sets the field of each string whose
\* slot names one and appends a name record for each string whose slot is None
\* (name ids 4, 15 and 20); a record of another language appends a name record
\* for each string and sets no field.
C21_NameRecordsOfTypedSlots ==
    [][NamesRead =>
        IF StepLang = 1033
        THEN /\ RecordsOf(result') =
                    RecordsOf(result) \o NameRecordsAt((1..Len(StepNames)) \ TypedPositions)
             /\ FieldsSetAt(TypedPositions)
        ELSE /\ RecordsOf(result') = RecordsOf(result) \o NameRecordsAt(1..Len(StepNames))
             /\ FieldsSetAt({})]_vars

\* C21's case: records of language 1033 and of another language were read; a
\* field was set from the one, a name record appended from the other, and the
\* string of name id 4 of language 1033 is a name record.
C21_Witness ==
    /\ upc = "call"
    /\ result.fields["familyName"] = Some("Fam")
    /\ \E k \in 1..Len(RecordsOf(result)) :
        RecordsOf(result)[k] = [nameID |-> 4, languageID |-> 1033, string |-> "Full",
                                platformID |-> 3, encodingID |-> 1]
    /\ \E k \in 1..Len(RecordsOf(result)) : RecordsOf(result)[k].languageID = 1036

-----------------------------------------------------------------------------
(* SpecLayers: _parseChar on the records of one glyph section that select
   layers, set the width and hold outlines; the font has two or three layers,
   each declared by a Layer record, layer 1 being the default layer. *)

MaxRecords == 3

LayerCounts == {2, 3}

LayerGlyphName == "A"

\* The records of a section: each is the lines it takes
LayerRecords ==
    {<<"Width: 500">>, <<"Back">>, <<"Fore">>,
     <<"Layer: 0">>, <<"Layer: 1">>, <<"Layer: 2">>,
     <<"SplineSet", "0 0 m 1", "100 0 l 1", "EndSplineSet">>}

InitLayers ==
    /\ \E count \in LayerCounts, quad \in BOOLEAN :
        /\ layers = [k \in 1..count |->
                        IF k = 2 THEN Put(EmptyDict, LayerGlyphName, NewLayerGlyph)
                        ELSE EmptyDict]
        /\ layerType = [k \in 1..count |-> quad]
    /\ \E n \in 0..MaxRecords : \E recs \in [1..n -> LayerRecords] :
        charSection = <<"Encoding: 65 65 0">> \o Concat(recs)
    /\ sci = 0 /\ recAt = 0 /\ layerGlyph = 1
    /\ glyphQuadratic = None /\ encOrder = None /\ lpc = "records"
    /\ ParseIdle /\ FeaIdle /\ CharIdle /\ DrawIdle /\ AnchorIdle /\ UnitIdle

\* One pass of the loop of _parseChar (lines 464-536) over a record of the
\* section: the branches of Width, Encoding, the layer keywords and SplineSet;
\* the records here take no other branch.
CharRecord ==
    /\ lpc = "records"
    /\ sci < Len(charSection)
    /\ recAt' = sci + 1
    /\ LET l == charSection[sci + 1]
           parts == SplitOn(l, ": ")
           key == parts[1]
           value == IF Len(parts) = 1 THEN None
                    ELSE Some(SubSeq(l, Len(key) + 3, Len(l)))
           Raise == /\ lpc' = "error"
                    /\ UNCHANGED <<layers, sci, layerGlyph, glyphQuadratic, encOrder>>
       IN  IF key = "Width"
           THEN IF IntOf(value) = None THEN Raise
                ELSE /\ layers' = [layers EXCEPT ![2] =
                            Put(@, LayerGlyphName,
                                [Get(@, LayerGlyphName) EXCEPT !.width = Val(IntOf(value))])]
                     /\ sci' = sci + 1
                     /\ UNCHANGED <<layerGlyph, glyphQuadratic, encOrder, lpc>>
           ELSE IF key = "Encoding"
           THEN IF value = None THEN Raise
                ELSE \E v \in {Ints(Words(Val(value)))} :
                        IF v = None \/ Len(Val(v)) # 3 THEN Raise
                        ELSE /\ encOrder' = Some(Val(v)[3])
                             /\ sci' = sci + 1
                             /\ UNCHANGED <<layers, layerGlyph, glyphQuadratic, lpc>>
           ELSE IF key \in Range(LAYER_KEYWORDS)
           THEN \E r \in {layerRecord(LayerGlyphName, key, value, layerType,
                                      [layers |-> layers])} :
                    IF r = None THEN Raise
                    ELSE /\ layers' = Val(r).layers
                         /\ layerGlyph' = Val(r).target
                         /\ glyphQuadratic' = Val(r).quad
                         /\ sci' = sci + 1
                         /\ UNCHANGED <<encOrder, lpc>>
           ELSE IF key = "SplineSet"
           THEN \E r \in {splineSetRecord(LayerGlyphName, charSection, sci + 1,
                                          layerGlyph, glyphQuadratic, layers)} :
                    IF r = None THEN Raise
                    ELSE /\ layers' = Val(r).layers
                         /\ sci' = Val(r).cursor
                         /\ UNCHANGED <<layerGlyph, glyphQuadratic, encOrder, lpc>>
           ELSE /\ sci' = sci + 1
                /\ UNCHANGED <<layers, layerGlyph, glyphQuadratic, encOrder, lpc>>
    /\ UNCHANGED <<layerType, charSection>>
    /\ UNCHANGED <<parseVars, feaVars, charVars, drawVars, anchorVars, unitVars>>

\* The end of _parseChar (lines 540-542): return glyph, order
CharReturn ==
    /\ lpc = "records"
    /\ sci >= Len(charSection)
    /\ lpc' = (IF encOrder = None THEN "error" ELSE "done")
    /\ UNCHANGED <<layers, layerType, charSection, sci, recAt, layerGlyph,
                   glyphQuadratic, encOrder>>
    /\ UNCHANGED <<parseVars, feaVars, charVars, drawVars, anchorVars, unitVars>>

NextLayers == CharRecord \/ CharReturn

SpecLayers == InitLayers /\ [][NextLayers]_vars

\* The record handled last
LastRecord == charSection[recAt]

IsLayerRecord(l) == SplitOn(l, ": ")[1] \in Range(LAYER_KEYWORDS)

\* The layer index the claim gives a layer record: 0 for Back, 1 for Fore, n
\* for Layer: n
ClaimedIndex(l) ==
    IF l = "Back" THEN 0 ELSE IF l = "Fore" THEN 1
    ELSE Val(IntOf(Some(SplitOn(l, ": ")[2])))

\* The layer of index n holds the glyph as it did, if it held it, and else
\* holds a new glyph of the width the glyph had
FetchedOrCreated(n) ==
    IF HasKey(layers[n + 1], LayerGlyphName)
    THEN layers'[n + 1] = layers[n + 1]
    ELSE /\ HasKey(layers'[n + 1], LayerGlyphName)
         /\ Get(layers'[n + 1], LayerGlyphName) =
                [NewLayerGlyph EXCEPT !.width = Get(layers[2], LayerGlyphName).width]

\* C16: a Back record makes layer 0 the active one, a Fore record layer 1, a
\* Layer: n record layer n, for each n below the number of layers; the glyph
\* of the layer is created when the layer does not hold it, with the width the
\* glyph has then, and is the glyph the layer holds otherwise.
C16_LayerSelection ==
    /\ [](recAt > 0 /\ IsLayerRecord(LastRecord)
            /\ ClaimedIndex(LastRecord) < Len(layers) =>
                lpc # "error" /\ layerGlyph = ClaimedIndex(LastRecord))
    /\ [][(recAt' # recAt /\ IsLayerRecord(charSection[recAt'])
            /\ ClaimedIndex(charSection[recAt']) < Len(layers)) =>
                FetchedOrCreated(ClaimedIndex(charSection[recAt']))]_vars

\* What holds of C16: the same for the records other than Layer: 0.
C16_SelectionExceptLayer0 ==
    /\ [](recAt > 0 /\ IsLayerRecord(LastRecord) /\ LastRecord # "Layer: 0"
            /\ ClaimedIndex(LastRecord) < Len(layers) =>
                lpc # "error" /\ layerGlyph = ClaimedIndex(LastRecord))
    /\ [][(recAt' # recAt /\ IsLayerRecord(charSection[recAt'])
            /\ charSection[recAt'] # "Layer: 0"
            /\ ClaimedIndex(charSection[recAt']) < Len(layers)) =>
                FetchedOrCreated(ClaimedIndex(charSection[recAt']))]_vars

\* No layer record precedes the record handled last
NoLayerRecordBefore ==
    \A k \in 1..(recAt - 1) : ~IsLayerRecord(charSection[k])

\* C17: a SplineSet section met before any Back, Fore or Layer record of the
\* glyph does not end the parse in an error and is drawn on the outline of the
\* glyph itself, and the parse of such a glyph ends without error.
C17_DefaultActiveLayer ==
    (recAt > 0 /\ LastRecord = "SplineSet" /\ NoLayerRecordBefore) =>
        /\ lpc # "error"
        /\ Get(layers[2], LayerGlyphName).outline # <<>>

\* What holds of C17: a SplineSet section met after a Fore record, and after no
\* other layer record since, is drawn on the outline of the glyph itself.
C17_SplineSetAfterFore ==
    (recAt > 1 /\ LastRecord = "SplineSet" /\ charSection[recAt - 1] = "Fore") =>
        /\ lpc # "error"
        /\ Get(layers[2], LayerGlyphName).outline # <<>>

-----------------------------------------------------------------------------
(* SpecAnchors: a parser constructed with or without ufo_anchors reads
   AnchorPoint records of the glyphs of its font, in any order. *)

MaxAnchors == 3

\* The values of AnchorPoint records: a base anchor, the anchors of the two
\* components of a ligature, and a record the pattern rejects
AnchorData ==
    {"\"top\" 300 700 basechar 0", "\"lig\" 100 0 baselig 0",
     "\"lig\" 400 0 baselig 1", "top 300 700 basechar 0"}

InitAnchors ==
    /\ use_ufo_anchors \in BOOLEAN
    /\ anchorLog = <<>> /\ apc = "anchors"
    /\ glyphAnchors = EmptyDict
    /\ fontGlyphs = FontOf(<<<<"A", None>>, <<"fi", None>>>>)
    /\ glyphOrder = <<>>
    /\ lookupRecords = <<>> /\ gsubLookups = EmptyDict /\ gposLookups = EmptyDict
    /\ lookupInfo = EmptyDict /\ sanitizedLookupNames = EmptyDict
    /\ glyphPosSub = EmptyDict /\ anchorClasses = EmptyDict
    /\ ligatureCarets = EmptyDict /\ feaText = None /\ wpc = "idle"
    /\ files = <<>> /\ enumOrder = <<>> /\ cpc = "idle"
    /\ charLines = <<>> /\ chi = 0 /\ ci = 0 /\ glyphOrderMap = EmptyDict
    /\ glyphKerns = EmptyDict /\ kerning = EmptyDict
    /\ ParseIdle /\ DrawIdle /\ UnitIdle /\ LayerIdle

\* self._parseAnchorPoint(glyph, value) as _parseChar calls it (line 489)
ParseAnchorPoint(name, data) ==
    /\ apc = "anchors"
    /\ Len(anchorLog) < MaxAnchors
    /\ anchorLog' = Append(anchorLog, <<name, data>>)
    /\ \E r \in {parseAnchorPointRecord(name, data, use_ufo_anchors,
                    [glyphs |-> fontGlyphs, gas |-> glyphAnchors])} :
          IF r = None
          THEN /\ apc' = "error"
               /\ UNCHANGED <<fontGlyphs, glyphAnchors>>
          ELSE /\ apc' = "anchors"
               /\ fontGlyphs' = Val(r).glyphs
               /\ glyphAnchors' = Val(r).gas
    /\ UNCHANGED <<lookupRecords, gsubLookups, gposLookups, lookupInfo,
                   sanitizedLookupNames, glyphPosSub, anchorClasses,
                   ligatureCarets, feaText, wpc>>
    /\ UNCHANGED <<files, enumOrder, cpc, charLines, chi, ci, glyphOrder,
                   glyphOrderMap, glyphKerns, kerning>>
    /\ UNCHANGED <<use_ufo_anchors, parseVars, drawVars, unitVars, layerVars>>

NextAnchors ==
    \E name \in Range(fontGlyphs.keys), data \in AnchorData :
        ParseAnchorPoint(name, data)

SpecAnchors == InitAnchors /\ [][NextAnchors]_vars

\* The records read that matched the pattern, in order: <<glyph, match>>
AnchorsRead ==
    LET ok == SelectSeq(anchorLog, LAMBDA r : anchorMatch(r[2]) # None)
    IN  [k \in 1..Len(ok) |-> <<ok[k][1], Val(anchorMatch(ok[k][2]))>>]

\* The anchors a glyph was given, in order
AppendedTo(name) ==
    LET of == SelectSeq(AnchorsRead, LAMBDA r : r[1] = name)
    IN  [k \in 1..Len(of) |->
            parseAnchorPoint(<<of[k][2][1], of[k][2][4], of[k][2][2], of[k][2][3],
                               of[k][2][5]>>)]

\* The anchor of record k is stored under its glyph, class and kind
StoredAt(k) ==
    LET name == AnchorsRead[k][1]
        a == AnchorsRead[k][2]
    IN  /\ HasKey(glyphAnchors, name)
        /\ HasKey(Get(glyphAnchors, name), a[1])
        /\ HasKey(Get(Get(glyphAnchors, name), a[1]), a[4])

StoredValue(k) ==
    LET a == AnchorsRead[k][2]
    IN  Get(Get(Get(glyphAnchors, AnchorsRead[k][1]), a[1]), a[4])

\* Record k is the last one read for its glyph, class and kind
LastForKey(k) ==
    \A j \in (k + 1)..Len(AnchorsRead) :
        ~(/\ AnchorsRead[j][1] = AnchorsRead[k][1]
          /\ AnchorsRead[j][2][1] = AnchorsRead[k][2][1]
          /\ AnchorsRead[j][2][4] = AnchorsRead[k][2][4])

\* With ufo_anchors the map stays empty and each glyph holds the anchors of
\* its records in order; without, no glyph holds an anchor.
ExclusiveModes ==
    /\ use_ufo_anchors =>
        /\ glyphAnchors = EmptyDict
        /\ \A name \in Range(fontGlyphs.keys) :
            Get(fontGlyphs, name).anchors = AppendedTo(name)
    /\ ~use_ufo_anchors =>
        \A name \in Range(fontGlyphs.keys) : Get(fontGlyphs, name).anchors = <<>>

\* C12 as amended: the two modes exclude each other, and without ufo_anchors
\* every record read has an entry of _glyphAnchors under its glyph, class and
\* kind, which holds the coordinates and index of the last record read for
\* that glyph, class and kind.
C12_AnchorModesExclusive ==
    /\ ExclusiveModes
    /\ ~use_ufo_anchors =>
        \A k \in 1..Len(AnchorsRead) :
            /\ StoredAt(k)
            /\ LastForKey(k) =>
                StoredValue(k) = <<AnchorsRead[k][2][2], AnchorsRead[k][2][3],
                                   AnchorsRead[k][2][5]>>

\* C12's case: without ufo_anchors three records were read, the anchors of the
\* two components of a ligature on one glyph and an anchor on another; the
\* entry of the ligature holds the second component's anchor.
C12_Witness ==
    /\ apc = "anchors" /\ ~use_ufo_anchors /\ Len(AnchorsRead) = 3
    /\ AnchorsRead[1][1] = "fi" /\ AnchorsRead[2][1] = "fi" /\ AnchorsRead[3][1] = "A"
    /\ AnchorsRead[1][2] = <<"lig", 100, 0, "baselig", 0>>
    /\ AnchorsRead[2][2] = <<"lig", 400, 0, "baselig", 1>>
    /\ StoredValue(1) = <<400, 0, 1>>

\* C12 as stated: the two modes exclude each other, and without ufo_anchors
\* every anchor read is in _glyphAnchors.
C12_EveryAnchorStored ==
    /\ ExclusiveModes
    /\ ~use_ufo_anchors =>
        \A k \in 1..Len(AnchorsRead) :
            /\ StoredAt(k)
            /\ StoredValue(k) = <<AnchorsRead[k][2][2], AnchorsRead[k][2][3],
                                  AnchorsRead[k][2][5]>>

-----------------------------------------------------------------------------
(* SpecChars: the glyph block of parse() (lines 1217-1233): the lines are
   gathered, _parseChars reads them section by section, then _processKerns
   runs.  In directory mode the lines come from the *.glyph files in the
   order glob.iglob returns them; in file mode they are the BeginChars block,
   here the same files written one after the other. *)

MaxFiles == 2

\* fp.readlines() of a file of the given lines
Lines(ls) == [k \in 1..Len(ls) |-> ls[k] \o "\n"]

\* The glyph files.  Two name their glyph A; two have rank 0; one has a kern to
\* an index no glyph has with at most three glyphs; one has no Encoding
\* record; one has no EndChar.
GlyphFiles ==
    {Lines(<<"StartChar: A", "Encoding: 65 65 0", "Width: 500",
             "Kerns2: 1 -40 \"k\" 1 -45 \"k\"", "EndChar">>),
     Lines(<<"StartChar: A", "Encoding: 65 65 1", "Width: 600", "EndChar">>),
     Lines(<<"StartChar: B", " Encoding: 66 66 1 ", "", "Width: 550", "Flags: W",
             "Kerns2: 0 -30 \"k\" -1 12 \"k\"", "EndChar">>),
     Lines(<<"StartChar: V", "Encoding: 86 -1 0", "Kerns2: 3 7 \"k\"", "EndChar">>),
     Lines(<<"StartChar: C", "Width: 400", "EndChar">>),
     Lines(<<"StartChar: D", "Encoding: 68 68 3", "Width: 450">>)}

EnumOrders(n) ==
    {p \in [1..n -> 1..n] : \A a, b \in 1..n : p[a] = p[b] => a = b}

InitChars ==
    /\ \E n \in 0..MaxFiles : files \in [1..n -> GlyphFiles]
    /\ isdir \in BOOLEAN
    /\ enumOrder \in EnumOrders(Len(files))
    /\ ~isdir => enumOrder = [k \in 1..Len(files) |-> k]
    /\ charData = IF isdir THEN None ELSE Some(Concat(files))
    /\ cpc = "glob" /\ charLines = <<>> /\ chi = 0 /\ ci = 0
    /\ fontGlyphs = EmptyDict /\ glyphOrder = <<>> /\ glyphOrderMap = EmptyDict
    /\ glyphKerns = EmptyDict /\ kerning = EmptyDict
    /\ line = "" /\ i = 0 /\ status = "scanned" /\ info = NewInfo
    /\ offsetMetrics = <<>> /\ scanInfo = NewInfo
    /\ fontBounds = [yMin |-> 0, yMax |-> 0]
    /\ FeaIdle /\ DrawIdle /\ OtherIdle

\* Lines 1217-1225 and 564: the lines of the glyph block
GatherChars ==
    /\ cpc = "glob"
    /\ charData' = IF isdir
                   THEN Some(Concat([k \in 1..Len(files) |-> files[enumOrder[k]]]))
                   ELSE charData
    /\ charLines' = StripLines(Val(charData'))
    /\ cpc' = "chars"
    /\ UNCHANGED <<files, enumOrder, chi, ci, fontGlyphs, glyphOrder, glyphOrderMap,
                   glyphKerns, kerning>>
    /\ UNCHANGED <<line, i, status, isdir, info, offsetMetrics, scanInfo, fontBounds>>
    /\ UNCHANGED <<feaVars, drawVars, otherVars>>

\* One pass of the loop of _parseChars
CharsStep ==
    /\ cpc = "chars"
    /\ chi < Len(charLines)
    /\ \E st \in {charsStep([data |-> charLines, i |-> chi, n |-> ci,
                            glyphs |-> fontGlyphs, kerns |-> glyphKerns,
                            map |-> glyphOrderMap, ok |-> TRUE])} :
        /\ cpc' = IF st.ok THEN "chars" ELSE "error"
        /\ chi' = st.i
        /\ ci' = st.n
        /\ fontGlyphs' = st.glyphs
        /\ glyphKerns' = st.kerns
        /\ glyphOrderMap' = st.map
    /\ UNCHANGED <<files, enumOrder, charLines, glyphOrder, kerning>>
    /\ UNCHANGED <<parseVars, feaVars, drawVars, otherVars>>

\* Lines 577-579: the assert and the new glyph order
SortGlyphs ==
    /\ cpc = "chars"
    /\ chi >= Len(charLines)
    /\ IF Len(fontGlyphs.keys) = Len(glyphOrderMap.keys)
       THEN /\ glyphOrder' = SortedByRank(glyphOrderMap.keys, glyphOrderMap)
            /\ cpc' = "sorted"
       ELSE /\ glyphOrder' = fontGlyphs.keys
            /\ cpc' = "error"
    /\ UNCHANGED <<files, enumOrder, charLines, chi, ci, fontGlyphs, glyphOrderMap,
                   glyphKerns, kerning>>
    /\ UNCHANGED <<parseVars, feaVars, drawVars, otherVars>>

\* self._processKerns() (line 1233)
ProcessKerns ==
    /\ cpc = "sorted"
    /\ \E st \in {processKerns(glyphKerns, 1, glyphOrder,
                               [kerning |-> kerning, ok |-> TRUE])} :
        /\ kerning' = st.kerning
        /\ cpc' = IF st.ok THEN "kerned" ELSE "indexerror"
    /\ UNCHANGED <<files, enumOrder, charLines, chi, ci, fontGlyphs, glyphOrder,
                   glyphOrderMap, glyphKerns>>
    /\ UNCHANGED <<parseVars, feaVars, drawVars, otherVars>>

NextChars == GatherChars \/ CharsStep \/ SortGlyphs \/ ProcessKerns

SpecChars == InitChars /\ [][NextChars]_vars

\* The position in glyphOrder a target index k stands for: k from the start
\* when k >= 0, -k from the end when k < 0.
TargetPos(k) == IF k >= 0 THEN k + 1 ELSE Len(glyphOrder) + k + 1

\* The last of the kerns a glyph lists for a target is the n-th of its list.
LastForTarget(list, n) ==
    \A m \in (n + 1)..Len(list) : TargetPos(list[m][1]) # TargetPos(list[n][1])

\* C4: after _processKerns, for every kern (k, v) a glyph g lists that is the
\* last g lists for its target, font.kerning maps (g, glyphOrder[k]) to v.
C4_KerningResolution ==
    cpc = "kerned" =>
        \A g \in Range(glyphKerns.keys) :
            LET list == Get(glyphKerns, g)
            IN \A n \in 1..Len(list) :
                LastForTarget(list, n) =>
                    /\ TargetPos(list[n][1]) \in 1..Len(glyphOrder)
                    /\ HasKey(kerning, <<g, glyphOrder[TargetPos(list[n][1])]>>)
                    /\ Get(kerning, <<g, glyphOrder[TargetPos(list[n][1])]>>) = list[n][2]

\* A kerns V twice (the second value stored), B kerns A and, by index -1, itself.
C4_Witness ==
    /\ cpc = "kerned"
    /\ glyphOrder = <<"A", "B">>
    /\ HasKey(glyphKerns, "A") /\ HasKey(glyphKerns, "B")
    /\ Get(glyphKerns, "A") = <<<<1, -40>>, <<1, -45>>>>
    /\ Get(kerning, <<"A", "B">>) = -45
    /\ Get(kerning, <<"B", "B">>) = 12

\* C5: when _parseChars has accepted the glyph block, the number of names
\* given a rank and the length of font.glyphOrder equal the number of
\* StartChar sections parsed.
C5_GlyphCount ==
    cpc \in {"sorted", "kerned", "indexerror"} =>
        /\ Len(glyphOrderMap.keys) = ci
        /\ Len(glyphOrder) = ci

\* The names of the StartChar lines of the block
SectionNames ==
    LET starts == SelectSeq(charLines, LAMBDA l : StartsWith(l, "StartChar"))
    IN  [k \in 1..Len(starts) |-> SplitOn(starts[k], ": ")[2]]

\* The count holds for the blocks no two sections of which name the same glyph.
C5_GlyphCountOfDistinctNames ==
    (/\ cpc \in {"sorted", "kerned", "indexerror"}
     /\ \A a, b \in 1..Len(SectionNames) : SectionNames[a] = SectionNames[b] => a = b)
        => /\ Len(glyphOrderMap.keys) = ci
           /\ Len(glyphOrder) = ci

\* font.glyphOrder[r] is the glyph named, r counting from 0
ResolvesTo(r, name) ==
    r >= 0 /\ r < Len(glyphOrder) /\ glyphOrder[r + 1] = name

\* No two glyphs parsed declare the same rank, no two sections the same name.
DistinctRanks ==
    /\ \A a, b \in 1..Len(SectionNames) : SectionNames[a] = SectionNames[b] => a = b
    /\ \A a, b \in Range(glyphOrderMap.keys) :
        Get(glyphOrderMap, a) = Get(glyphOrderMap, b) => a = b

\* C15: once font.glyphOrder is set, for each glyph g parsed, of the rank r its
\* Encoding record declared, font.glyphOrder[r] is g, whatever set of ranks
\* the block declares, with or without gaps.
C15_IndexResolution ==
    (cpc \in {"sorted", "kerned", "indexerror"} /\ DistinctRanks) =>
        \A name \in Range(glyphOrderMap.keys) :
            ResolvesTo(Get(glyphOrderMap, name), name)

\* What holds of C15: the same for the blocks whose ranks are 0..n-1.
C15_ResolutionOfContiguousRanks ==
    (/\ cpc \in {"sorted", "kerned", "indexerror"} /\ DistinctRanks
     /\ \A name \in Range(glyphOrderMap.keys) :
            Get(glyphOrderMap, name) \in 0..(Len(glyphOrderMap.keys) - 1)) =>
        \A name \in Range(glyphOrderMap.keys) :
            ResolvesTo(Get(glyphOrderMap, name), name)

\* The glyphs of a parse: name, rank and parsed data of each
GlyphSet(map, glyphs) ==
    {<<name, Get(map, name), Get(glyphs, name)>> : name \in Range(map.keys)}

\* Each file ends its last section.
WholeFiles ==
    \A k \in 1..Len(files) : StartsWith(files[k][Len(files[k])], "EndChar")

\* C9: in directory mode, on glyph files of whole sections and whatever order
\* they are read in, _parseChars ends as it does on the files written one
\* after the other in a BeginChars block, with the same glyphs.
C9_DirectoryEquivalence ==
    (isdir /\ WholeFiles /\ cpc \in {"error", "sorted"}) =>
        \E ref \in {runChars(Concat(files))} :
            /\ ref.ok = (cpc = "sorted")
            /\ ref.ok => GlyphSet(ref.map, ref.glyphs) = GlyphSet(glyphOrderMap, fontGlyphs)

\* The equivalence holds for the files no two sections of which name the same
\* glyph.
C9_EquivalenceOfDistinctNames ==
    (/\ isdir /\ WholeFiles /\ cpc \in {"error", "sorted"}
     /\ \A a, b \in 1..Len(SectionNames) : SectionNames[a] = SectionNames[b] => a = b)
        => \E ref \in {runChars(Concat(files))} :
            /\ ref.ok = (cpc = "sorted")
            /\ ref.ok => GlyphSet(ref.map, ref.glyphs) = GlyphSet(glyphOrderMap, fontGlyphs)

-----------------------------------------------------------------------------
(* SpecContour: _drawContours on one contour of a glyph *)

MaxSegs == 2

Points == {<<0, 0>>, <<100, 0>>}
MoveFlags == {"0", "1025x0"}
LineFlags == {"0", "1", "1025x0"}
CurveFlags == {"0", "128,0", "1025x0"}

\* The segments _parseSplineSet makes (lines 244-255): one point for m and l,
\* three for c
MoveSegments ==
    {[pts |-> <<p>>, segmentType |-> "m", flags |-> f] : p \in Points, f \in MoveFlags}
NextSegments ==
    {[pts |-> <<p>>, segmentType |-> "l", flags |-> f] : p \in Points, f \in LineFlags}
    \cup {[pts |-> <<p, q, r>>, segmentType |-> "c", flags |-> f] :
            p \in {<<0, 0>>}, q \in Points, r \in Points, f \in CurveFlags}

InitContour ==
    /\ \E m \in MoveSegments, n \in 0..MaxSegs, named \in BOOLEAN :
        \E rest \in [1..n -> NextSegments] :
            contour = <<m>> \o rest \o (IF named THEN <<[name |-> "a"]>> ELSE <<>>)
    /\ quadratic \in BOOLEAN
    /\ si = 0 /\ ufoContour = <<>> /\ emitted = <<>> /\ forceOpen = FALSE
    /\ pen = <<>> /\ dpc = "segments"
    /\ ParseIdle /\ FeaIdle /\ CharIdle /\ OtherIdle

\* One pass of the loop over the segments
DrawSegment ==
    /\ dpc = "segments"
    /\ si < Len(Segments(contour))
    /\ si' = si + 1
    /\ \E r \in {drawSegment(Segments(contour)[si + 1], quadratic,
                             [ufoContour |-> ufoContour, forceOpen |-> forceOpen])} :
        IF r = None
        THEN dpc' = "error" /\ UNCHANGED <<ufoContour, forceOpen>>
        ELSE /\ dpc' = "segments"
             /\ ufoContour' = Val(r).ufoContour
             /\ forceOpen' = Val(r).forceOpen
    /\ UNCHANGED <<contour, quadratic, emitted, pen>>
    /\ UNCHANGED <<parseVars, feaVars, charVars, otherVars>>

\* The closing step and the calls to the pen (lines 298-308)
DrawPath ==
    /\ dpc = "segments"
    /\ si = Len(Segments(contour))
    /\ emitted' = ufoContour
    /\ ufoContour' = closePath(ufoContour, forceOpen)
    /\ pen' = pen \o PenCalls(ufoContour')
    /\ dpc' = "drawn"
    /\ UNCHANGED <<contour, quadratic, si, forceOpen>>
    /\ UNCHANGED <<parseVars, feaVars, charVars, otherVars>>

NextContour == DrawSegment \/ DrawPath

SpecContour == InitContour /\ [][NextContour]_vars

\* The points the pen received
PenPoints ==
    LET calls == SelectSeq(pen, LAMBDA c : c.call = "addPoint")
    IN  [k \in 1..Len(calls) |->
            UfoPoint(calls[k].pt, calls[k].segmentType, calls[k].smooth)]

\* Some segment of the contour carries the flag 0x400.
AnyForceOpen ==
    \E k \in 1..Len(Segments(contour)) :
        BitSet(Val(FlagOf(Segments(contour)[k].flags)), 1024)

\* C6: a contour of two or more emitted points, none of a segment flagged
\* 0x400, whose first and last emitted points have equal coordinates, reaches
\* the pen one point short: the first point delivered has the type and smooth
\* flag of the dropped last point, the others are delivered as emitted; a
\* contour with a flagged segment, or with different first and last
\* coordinates, is delivered as emitted.
C6_PathClosing ==
    dpc = "drawn" =>
        LET n == Len(emitted)
        IN /\ (n >= 2 /\ ~AnyForceOpen /\ emitted[1].pt = emitted[n].pt) =>
                /\ Len(PenPoints) = n - 1
                /\ PenPoints[1].segmentType = emitted[n].segmentType
                /\ PenPoints[1].smooth = emitted[n].smooth
                /\ \A k \in 2..(n - 1) : PenPoints[k] = emitted[k]
           /\ (AnyForceOpen \/ emitted[1].pt # emitted[n].pt) => PenPoints = emitted

\* A contour that ends with a corner line back to its start: the point
\* delivered first is the line point, not the move.
C6_Witness ==
    /\ dpc = "drawn"
    /\ Len(emitted) >= 3
    /\ Len(PenPoints) = Len(emitted) - 1
    /\ emitted[1].segmentType = Some("move")
    /\ PenPoints[1].segmentType = Some("line")
    /\ PenPoints[1].smooth # emitted[1].smooth

\* The segment the last pass of the loop was on is a c segment whose first two
\* points differ.
UnequalCurve ==
    /\ si >= 1
    /\ dpc \in {"segments", "error"}
    /\ Segments(contour)[si].segmentType = "c"
    /\ Segments(contour)[si].pts[1] # Segments(contour)[si].pts[2]

\* C7: a c segment whose first two points differ stops the drawing on a
\* quadratic layer; on a cubic layer it adds its three points, two off-curve
\* and the on-curve one.
C7_QuadraticConstraint ==
    UnequalCurve =>
        LET pts == Segments(contour)[si].pts
            n == Len(ufoContour)
        IN IF quadratic THEN dpc = "error"
           ELSE /\ dpc = "segments"
                /\ n >= 3
                /\ ufoContour[n - 2] = UfoPoint(pts[1], None, None)
                /\ ufoContour[n - 1] = UfoPoint(pts[2], None, None)
                /\ ufoContour[n].pt = pts[3]
                /\ ufoContour[n].segmentType = Some("curve")
                /\ ufoContour[n].smooth
                    = Some(Val(FlagOf(Segments(contour)[si].flags)) % 4 # 1)

C7_Witness == UnequalCurve /\ quadratic /\ dpc = "error" /\ si = 2

-----------------------------------------------------------------------------
(* SpecSanitize: _santizeLookupName called on the lookups of a file, in any
   order and any number of times *)

MaxSanLookups == 3

RECURSIVE Rep(_, _)
Rep(s, n) == IF n = 0 THEN "" ELSE s \o Rep(s, n - 1)

\* Raw lookup names: some become equal after stripping ("a", "a-", "1a"), some
\* empty ("-", ""), one is the name the collision branch would synthesize, two
\* differ only past the 63rd character, one has two leading digits and one a
\* stripped character before a digit.
RawNameSeq ==
    <<"a", "a-", "1a", "-", "", "sub_single__0",
      Rep("a", MaxNameLen) \o "b", Rep("a", MaxNameLen) \o "c", "12b", "-1c">>

\* kind, flag and feature list of a Lookup record
LookupShapes ==
    {[kind |-> 1, flag |-> 0, features |-> <<>>],
     [kind |-> 4, flag |-> 0, features |->
        <<[tag |-> "liga", scripts |-> <<[script |-> "DFLT", langs |-> <<"dflt">>]>>]>>],
     [kind |-> 258, flag |-> 8, features |->
        <<[tag |-> "kern", scripts |-> <<[script |-> "DFLT", langs |-> <<"dflt">>],
                                         [script |-> "latn", langs |-> <<"dflt">>]>>]>>]}

\* The elements of the set S of indices, in increasing order
SortedSeq(S, n) == SelectSeq([k \in 1..n |-> k], LAMBDA k : k \in S)

InitSanitize ==
    /\ \E S \in SUBSET (1..Len(RawNameSeq)) :
        /\ Cardinality(S) <= MaxSanLookups
        /\ \E shape \in [S -> LookupShapes] :
            lookupRecords =
                [k \in 1..Cardinality(S) |->
                    LET n == SortedSeq(S, Len(RawNameSeq))[k]
                    IN [kind |-> shape[n].kind, flag |-> shape[n].flag,
                        name |-> RawNameSeq[n], subtables |-> <<>>,
                        features |-> shape[n].features]]
    /\ LET st == Val(parseLookups(lookupRecords,
                        [gsub |-> EmptyDict, gpos |-> EmptyDict, info |-> EmptyDict]))
       IN /\ gsubLookups = st.gsub
          /\ gposLookups = st.gpos
          /\ lookupInfo = st.info
    /\ sanitizedLookupNames = EmptyDict
    /\ glyphPosSub = EmptyDict /\ glyphAnchors = EmptyDict
    /\ anchorClasses = EmptyDict /\ ligatureCarets = EmptyDict /\ feaText = None
    /\ wpc = "sanitize"
    /\ ParseIdle /\ CharIdle /\ DrawIdle /\ OtherIdle

\* self._santizeLookupName(lookup, isgpos) for a lookup of either table
SanitizeCall(lookup) ==
    /\ wpc = "sanitize"
    /\ LET r == santizeLookupName(lookup, Some(HasKey(gposLookups, lookup)),
                                  sanitizedLookupNames, lookupInfo)
       IN /\ r # None
          /\ sanitizedLookupNames' = Val(r)
    /\ UNCHANGED <<lookupRecords, gsubLookups, gposLookups, lookupInfo, glyphPosSub,
                   glyphAnchors, anchorClasses, ligatureCarets, feaText, wpc>>
    /\ UNCHANGED <<parseVars, charVars, drawVars, otherVars>>

NextSanitize ==
    \E lookup \in Range(gsubLookups.keys) \cup Range(gposLookups.keys) :
        SanitizeCall(lookup)

SpecSanitize == InitSanitize /\ [][NextSanitize]_vars

\* C2: the sanitized names are injective: two lookups with distinct raw names
\* never hold the same sanitized name, whatever the order of the calls and
\* whether the names were taken from the raw name or synthesized.
C2_SanitizedNamesInjective ==
    \A a, b \in 1..Len(sanitizedLookupNames.keys) :
        sanitizedLookupNames.map[a] = sanitizedLookupNames.map[b] => a = b

\* C2's case: three lookups whose raw names all strip to "a", and one whose
\* raw name strips to nothing, all named.
C2_Witness ==
    /\ {"a", "a-", "1a"} \subseteq Range(sanitizedLookupNames.keys)
    /\ Len(sanitizedLookupNames.keys) = 3
    /\ "a" \in Values(sanitizedLookupNames)

\* The name is made of letters, digits, "." and "_" only and has at most 63
\* characters
PlainName(s) ==
    /\ \A n \in 1..Len(s) : Chr(s, n) \in AsciiLetters \cup DigitChars \cup {".", "_"}
    /\ Len(s) <= MaxNameLen

BeginsWithDigit(s) == Len(s) > 0 /\ Chr(s, 1) \in DigitChars

\* The lookup is given a name by this step, and the name made from its raw name
\* was free (line 778), so that it is the name given
NamedFromRawName(lookup) ==
    /\ ~HasKey(sanitizedLookupNames, lookup)
    /\ HasKey(sanitizedLookupNames', lookup)
    /\ Truncate(KeptChars(lookup, 1)) \notin Values(sanitizedLookupNames)

\* C19: a name _santizeLookupName takes from the raw lookup name (the name was
\* free) is made of letters, digits, "." and "_" only, does not begin with a
\* digit and has at most 63 characters, whatever the raw name.
C19_SanitizedNameShape ==
    [][\A lookup \in Range(gsubLookups.keys) \cup Range(gposLookups.keys) :
        NamedFromRawName(lookup) =>
            /\ PlainName(Get(sanitizedLookupNames', lookup))
            /\ ~BeginsWithDigit(Get(sanitizedLookupNames', lookup))]_vars

\* What holds of C19: the characters and the length are as claimed, and the
\* name does not begin with a digit when the raw name begins with a character
\* that is kept.
C19_ShapeOfNamesKeepingFirstChar ==
    [][\A lookup \in Range(gsubLookups.keys) \cup Range(gposLookups.keys) :
        NamedFromRawName(lookup) =>
            /\ PlainName(Get(sanitizedLookupNames', lookup))
            /\ (Len(lookup) > 0 /\ Chr(lookup, 1) \in AsciiLetters \cup {".", "_"})
                    => ~BeginsWithDigit(Get(sanitizedLookupNames', lookup))]_vars

-----------------------------------------------------------------------------
(* Claims on the scan loop and the fixup *)

\* Every key an elif of the scan loop names (lines 1023-1202).
RecognizedKeys ==
    {"FontName", "FullName", "FamilyName", "Weight", "Comments", "Ascent", "Descent",
     "TTFWeight", "PfmWeight", "TTFWidth", "LineGap", "VLineGap", "HheadAscent",
     "HheadDescent", "OS2TypoLinegap", "OS2TypoAscent", "OS2TypoDescent",
     "OS2WinAscent", "OS2WinDescent", "OS2SubXSize", "OS2SubYSize", "OS2SubXOff",
     "OS2SubYOff", "OS2SupXSize", "OS2SupYSize", "OS2SupXOff", "OS2SupYOff",
     "OS2StrikeYSize", "OS2StrikeYPos", "OS2CapHeight", "OS2XHeight", "UniqueID",
     "HheadAOffset", "HheadDOffset", "OS2TypoAOffset", "OS2TypoDOffset",
     "OS2WinAOffset", "OS2WinDOffset", "EndSplineFont"}
    \cup PassKeys \cup OtherHandlerKeys

\* Nothing was done to the font model: no field of font.info set, no glyph
\* created, no kerning pair written, no feature text appended.
FontUntouched ==
    /\ info = NewInfo
    /\ fontGlyphs = EmptyDict
    /\ kerning = EmptyDict
    /\ feaText = None

\* The first line is SplineFontDB: <v> with v a number other than 3.0.
OtherVersionHeader(l) ==
    /\ LineKey(l) = "SplineFontDB"
    /\ FloatOf(LineValue(l)) # None
    /\ Val(FloatOf(LineValue(l)))[1] # 3 * Val(FloatOf(LineValue(l)))[2]

\* C1: when the first line is SplineFontDB: <v> with v other than 3.0, parse()
\* has aborted once that line is read, and nothing was done to the font model
\* (no info field set, no glyph, no kerning pair, no feature text), nor to the
\* parser's accumulators.
C1_VersionGate ==
    (i = 1 /\ OtherVersionHeader(line)) =>
        /\ status = "error"
        /\ FontUntouched
        /\ offsetMetrics = <<>>
        /\ charData = None

\* C1's case: the file starts with SplineFontDB: 2.0 and the parse has aborted.
C1_Witness == i = 1 /\ line = "SplineFontDB: 2.0" /\ status = "error"

\* C8 as stated: after the fixup, every offset metric whose flag was nonzero
\* (however often its key occurred) holds the value computed once from the
\* value v the scan stored; every other metric keeps v.
C8_OffsetMetricFixup ==
    status \in {"fixed", "done"} =>
        \A m \in {"openTypeOS2TypoAscender", "openTypeOS2TypoDescender",
                  "openTypeOS2WinAscent", "openTypeOS2WinDescent",
                  "openTypeHheaAscender", "openTypeHheaDescender"} :
            IF m \in Range(offsetMetrics)
            THEN LET v == Val(scanInfo[m])
                 IN info[m] = Some(
                     CASE m = "openTypeOS2TypoAscender" -> Val(scanInfo["ascender"]) + v
                       [] m = "openTypeOS2TypoDescender" -> Val(scanInfo["descender"]) + v
                       [] m = "openTypeOS2WinAscent" -> fontBounds.yMax + v
                       [] m = "openTypeOS2WinDescent" -> Max(0 - fontBounds.yMin + v, 0)
                       [] m = "openTypeHheaAscender" -> fontBounds.yMax + v
                       [] m = "openTypeHheaDescender" -> fontBounds.yMin + v)
            ELSE info[m] = scanInfo[m]

\* C8 for files in which no flagged offset key occurs twice: this holds.
C8_FixupOfSingleKeys ==
    (\A a, b \in 1..Len(offsetMetrics) : offsetMetrics[a] = offsetMetrics[b] => a = b)
        => C8_OffsetMetricFixup

\* C10 as stated: a line after the header whose key the driver does not
\* recognize neither aborts the parse nor changes font.info or an accumulator
\* of the parser; the scan goes on with the next line.
C10_UnknownKeysIgnored ==
    [][(/\ status = "scan"
        /\ i >= 1
        /\ i' = i + 1
        /\ LineKey(line') \notin RecognizedKeys)
       => (/\ status' = "scan"
           /\ info' = info
           /\ offsetMetrics' = offsetMetrics
           /\ charData' = charData)]_vars

====
